---- MODULE Spec2Model ----
(***************************************************************************)
(* A model of the TransPort-PH panel construction pipeline.                *)
(*                                                                         *)
(* The pipeline is a set of batch scripts that hand tables to each other   *)
(* through CSV files in one data directory.  The state is the data         *)
(* directory (fs), the record of the script that ran last (run) and the    *)
(* state of the orchestrator run_all.py (orch).  Every script is one       *)
(* action: it reads whole files and writes whole files.                    *)
(*                                                                         *)
(* Cells.  A numeric cell is a natural number, NaN stands for a missing    *)
(* numeric cell; a text cell is a string, None stands for a missing text   *)
(* cell.  Percentages are kept in fixed point, in hundredths of a          *)
(* percentage point, so that means and interpolated quantiles are exact.   *)
(***************************************************************************)
EXTENDS Integers, Sequences, FiniteSets, TLC

VARIABLES fs, run, orch

vars == <<fs, run, orch>>

(***************************************************************************)
(* Cells and their pandas/Python semantics                                 *)
(***************************************************************************)
NaN == 0 - 1

None == ""

\* the text columns of all tables; every other column is numeric
StringCols ==
    {"country", "city", "data_source", "estimation_method", "source", "note", "coverage", "file",
     "data_source_overpass", "source_ltfrb", "source_jica"}

IsNull(c, v) == IF c \in StringCols THEN v = None ELSE v = NaN

NullOf(c) == IF c \in StringCols THEN None ELSE NaN

\* Python/numpy comparison of floats: any comparison with NaN is False
Lt(a, b) == a # NaN /\ b # NaN /\ a < b

Gt(a, b) == Lt(b, a)

Ge(a, b) == a # NaN /\ b # NaN /\ a >= b

Le(a, b) == a # NaN /\ b # NaN /\ a <= b

\* the strings of the model in ascending (lexicographic) order, as Python
\* and pandas compare them
StrOrder ==
    <<"", "Brazil", "India", "Japan", "Kenya", "Peru", "Philippines", "Vietnam",
      "actual_tomtom", "ml_random_forest", "rule_based">>

StrRank(s) == CHOOSE i \in 1..Len(StrOrder) : StrOrder[i] = s

\* the place of the cell v of column c in sort_values: ascending, a missing
\* cell after every other
CellKey(c, v) ==
    IF IsNull(c, v) THEN <<1, 0>>
    ELSE IF c \in StringCols THEN <<0, StrRank(v)>> ELSE <<0, v>>

\* lexicographic order of two sequences of cell keys
KeyLt(a, b) ==
    \E k \in 1..Len(a) :
        /\ \A m \in 1..(k - 1) : a[m] = b[m]
        /\ \/ a[k][1] < b[k][1]
           \/ a[k][1] = b[k][1] /\ a[k][2] < b[k][2]

(***************************************************************************)
(* Sequences                                                               *)
(***************************************************************************)
Range(s) == {s[i] : i \in 1..Len(s)}

RECURSIVE SeqSum(_)
SeqSum(s) == IF s = <<>> THEN 0 ELSE Head(s) + SeqSum(Tail(s))

\* the rows of s whose index is in the set keep, in order
Filter(s, keep) ==
    LET idx == SelectSeq([i \in 1..Len(s) |-> i], LAMBDA i : i \in keep)
    IN [k \in 1..Len(idx) |-> s[idx[k]]] @@ <<>>

Contains(s, x) == \E i \in 1..Len(s) : s[i] = x

(***************************************************************************)
(* Tables (pandas DataFrame): the column names in order and the rows, each *)
(* row a function from the column names to cells                           *)
(***************************************************************************)
\* (the rows are built once, when the table is made)
Table(cols, rows) ==
    [cols |-> cols @@ <<>>, rows |-> [i \in 1..Len(rows) |-> rows[i] @@ <<>>] @@ <<>>]

HasCol(t, c) == Contains(t.cols, c)

SameKey(r1, r2, on) == \A i \in 1..Len(on) : r1[on[i]] = r2[on[i]]

\* the rows of s in ascending order on the columns by, rows that compare
\* equal in their order in s: row i goes to the place after the rows that
\* are smaller and the equal rows before it
SortRows(s, by) ==
    LET placed(rank) == [k \in 1..Len(s) |-> s[CHOOSE i \in 1..Len(s) : rank[i] = k]] @@ <<>>
        ranked(key) ==
            placed([i \in 1..Len(s) |->
                      1 + Cardinality({j \in 1..Len(s) :
                            \/ KeyLt(key[j], key[i])
                            \/ j < i /\ key[j] = key[i]})] @@ <<>>)
    IN ranked([i \in 1..Len(s) |->
                 [k \in 1..Len(by) |-> CellKey(by[k], s[i][by[k]])] @@ <<>>] @@ <<>>)

\* DataFrame.sort_values(by)
SortValues(t, by) == Table(t.cols, SortRows(t.rows, by))

\* DataFrame.drop_duplicates(subset, keep='last'): the fault of keeping the
\* last row of every key instead of the first
DropDuplicatesLast(t, subset) ==
    Table(t.cols,
          Filter(t.rows, {i \in 1..Len(t.rows) :
                            \A j \in (i + 1)..Len(t.rows) :
                                ~SameKey(t.rows[j], t.rows[i], subset)}))

\* DataFrame.drop_duplicates(subset, keep='first')
DropDuplicatesFirst(t, subset) ==
    Table(t.cols,
          Filter(t.rows, {i \in 1..Len(t.rows) :
                            \A j \in 1..(i - 1) : ~SameKey(t.rows[j], t.rows[i], subset)}))

\* pd.concat([a, b]): the union of the columns, a's rows then b's rows,
\* a column a table lacks is missing in its rows
ConcatCols(a, b) ==
    a.cols \o Filter(b.cols, {i \in 1..Len(b.cols) : ~Contains(a.cols, b.cols[i])})

Widen(r, have, cols) ==
    [c \in Range(cols) |-> IF Contains(have, c) THEN r[c] ELSE NullOf(c)]

Concat(a, b) ==
    LET widened(cols) ==
            Table(cols,
                  [i \in 1..Len(a.rows) |-> Widen(a.rows[i], a.cols, cols)]
                  \o [i \in 1..Len(b.rows) |-> Widen(b.rows[i], b.cols, cols)])
    IN widened(ConcatCols(a, b))

\* Series.mean(): the mean of the values that are not missing
NonNull(s) == Filter(s, {i \in 1..Len(s) : s[i] # NaN})

Mean(s) ==
    LET mean(v) == IF v = <<>> THEN NaN ELSE SeqSum(v) \div Len(v) IN mean(NonNull(s))

Column(t, c) == [i \in 1..Len(t.rows) |-> t.rows[i][c]]

\* df.groupby(keys).agg({c: 'mean' for c in vals}).reset_index(): one row per
\* distinct key, keys ascending; rows with a missing key are left out
GroupByMean(t, keys, vals) ==
    LET cols == keys \o vals
        means(group, c) == Mean([j \in 1..Len(group) |-> group[j][c]])
        grouped(ok, firsts) ==
            Table(cols,
                  [i \in 1..Len(firsts) |->
                     [c \in Range(cols) |->
                         IF Contains(keys, c) THEN firsts[i][c]
                         ELSE means(Filter(ok, {j \in 1..Len(ok) : SameKey(ok[j], firsts[i], keys)}),
                                    c)]])
        keyed(ok) ==
            grouped(ok, DropDuplicatesFirst(Table(t.cols, SortRows(ok, keys)), keys).rows)
    IN keyed(Filter(t.rows, {i \in 1..Len(t.rows) :
                      \A k \in 1..Len(keys) : ~IsNull(keys[k], t.rows[i][keys[k]])}))

\* DataFrame.merge(right, on=on, how=how, suffixes=('', suffix)): the rows in
\* the order of the left table, one per matching right row; with how = "left"
\* a left row without a match is kept once, its right columns missing.  A right
\* column whose name the left table has already is renamed with the suffix.
MergeRightCols(left, right, on) ==
    Filter(right.cols, {i \in 1..Len(right.cols) : ~Contains(on, right.cols[i])})

MergeName(left, c, suffix) == IF Contains(left.cols, c) THEN c \o suffix ELSE c

MergeCols(left, right, on, suffix) ==
    LET named(rc) == left.cols \o [i \in 1..Len(rc) |-> MergeName(left, rc[i], suffix)]
    IN named(MergeRightCols(left, right, on))

MergeRow(left, right, on, suffix, l, r, matched) ==
    LET cell(src) == IF matched THEN r[src] ELSE NullOf(src)
        row(rc) ==
            [c \in Range(MergeCols(left, right, on, suffix)) |->
               IF Contains(left.cols, c) THEN l[c]
               ELSE cell(rc[CHOOSE i \in 1..Len(rc) : MergeName(left, rc[i], suffix) = c])]
    IN row(MergeRightCols(left, right, on))

RECURSIVE MergeRows(_, _, _, _, _, _)
MergeRows(left, right, on, how, suffix, n) ==
    IF n = 0 THEN <<>>
    ELSE LET l == left.rows[n]
             joined(r, matched) == MergeRow(left, right, on, suffix, l, r, matched)
             out(hits) == IF hits = <<>>
                          THEN IF how = "left" THEN <<joined(l, FALSE)>> ELSE <<>>
                          ELSE [j \in 1..Len(hits) |-> joined(hits[j], TRUE)]
         IN MergeRows(left, right, on, how, suffix, n - 1)
            \o out(Filter(right.rows,
                          {j \in 1..Len(right.rows) : SameKey(l, right.rows[j], on)}))

Merge(left, right, on, how, suffix) ==
    Table(MergeCols(left, right, on, suffix),
          MergeRows(left, right, on, how, suffix, Len(left.rows)))

\* Series.median(): the middle of the values that are not missing
Median(s) ==
    LET middle(v, n) ==
            IF n = 0 THEN NaN
            ELSE IF n % 2 = 1 THEN v[(n + 1) \div 2].x
            ELSE (v[n \div 2].x + v[n \div 2 + 1].x) \div 2
        sorted(v) == middle(SortRows([i \in 1..Len(v) |-> [x |-> v[i]]], <<"x">>), Len(v))
    IN sorted(NonNull(s))

\* df[cols].fillna(df[cols].median())
FillnaMedian(t, cols) ==
    Table(t.cols,
          [i \in 1..Len(t.rows) |->
             [c \in Range(t.cols) |->
                IF Contains(cols, c) /\ t.rows[i][c] = NaN
                THEN Median(Column(t, c)) ELSE t.rows[i][c]]])

(***************************************************************************)
(* The data directory                                                      *)
(***************************************************************************)
Exists(f, name) == name \in DOMAIN f

\* DataFrame.to_csv(path): the file is created or replaced
WriteFile(f, name, t) ==
    [g \in DOMAIN f \cup {name} |-> IF g = name THEN t ELSE f[g]]

\* the result of one script: its exit status, the directory it leaves and
\* the files it wrote
Result(status, f, written) == [status |-> status, fs |-> f, written |-> written]

Abs(x) == IF x < 0 THEN 0 - x ELSE x

\* df[c] = v: the column c set to v in every row (appended when new)
WithColumn(t, c, v) ==
    LET set(cols) ==
            Table(cols,
                  [i \in 1..Len(t.rows) |->
                     [d \in Range(cols) |-> IF d = c THEN v ELSE t.rows[i][d]]])
    IN set(IF HasCol(t, c) THEN t.cols ELSE Append(t.cols, c))

\* df[cols] with the columns renamed to names
Select(t, cols, names) ==
    Table(names,
          [i \in 1..Len(t.rows) |->
             [d \in Range(names) |->
                t.rows[i][cols[CHOOSE k \in 1..Len(names) : names[k] = d]]]])

(***************************************************************************)
(* File names                                                              *)
(***************************************************************************)
WorldBankFile == "worldbank_data.csv"

TomTomFile == "tomtom_traffic_data.csv"

CongestionFile == "congestion_comprehensive.csv"

CleanPanelFile == "clean_panel.csv"

KeyCols == <<"country", "year">>

(***************************************************************************)
(* data_gathering_congestion_proxy.py: the Congestion Proxy Estimator      *)
(***************************************************************************)
\* city rows reduced to one row per (country, year) by the mean
TomtomCountry(tomtom_df) ==
    GroupByMean(tomtom_df, KeyCols, <<"congestion_level_pct", "travel_time_index">>)

\* the training set: measurements joined with the base panel's covariates
Merged(tomtom_country, wb_df) == Merge(tomtom_country, wb_df, KeyCols, "inner", "_y")

\* fewer observations than this and the rule-based variant is used
MinObservations == 20

\* Python's min(a, b) and max(a, b): the second argument wins only when the
\* comparison with the first is True, so a NaN second argument never wins
PyMin(a, b) == IF Lt(b, a) THEN b ELSE a

PyMax(a, b) == IF Gt(b, a) THEN b ELSE a

asia_high_congestion ==
    {"Philippines", "Thailand", "Indonesia", "Vietnam", "India", "Bangladesh", "Pakistan"}

developed_good_transit ==
    {"Singapore", "Japan", "South Korea", "Germany", "Netherlands", "Denmark", "Switzerland"}

car_dependent == {"United States", "Australia", "Canada"}

latam_megacities == {"Colombia", "Brazil", "Mexico", "Peru", "Argentina"}

\* estimate_congestion(row) with the draw np.random.normal(0, 2) = noise; the
\* result and the noise in hundredths of a percentage point; road_per_capita
\* (hundredths) is read with the default 1.0 when the panel lacks the column
estimate_congestion(row, has_road, noise) ==
    LET gdp_per_cap == row["gdp_per_capita"]
        gdp_effect == IF Lt(gdp_per_cap, 5000) THEN 5
                      ELSE IF Lt(gdp_per_cap, 15000) THEN 20
                      ELSE IF Lt(gdp_per_cap, 40000) THEN 12
                      ELSE 5
        urban_pct == row["urban_population_pct"]
        road_per_cap == IF has_road THEN row["road_per_capita"] ELSE 100
        road_effect == IF Gt(road_per_cap, 0)
                       THEN PyMax(0, 1000 - road_per_cap * 3)
                       ELSE 1000
        population == row["population"]
        pop_effect == IF Gt(population, 100000000) THEN 8
                      ELSE IF Gt(population, 50000000) THEN 5
                      ELSE IF Gt(population, 10000000) THEN 3
                      ELSE 0
        country == row["country"]
        regional_effect ==
            IF country \in latam_megacities /\ Gt(urban_pct, 70) THEN 12
            ELSE IF country \in car_dependent THEN 5
            ELSE IF country \in developed_good_transit THEN 0 - 10
            ELSE IF country \in asia_high_congestion THEN 15
            ELSE 0
        estimated == IF urban_pct = NaN THEN NaN
                     ELSE 2500 + 100 * gdp_effect + 15 * urban_pct + road_effect
                          + 100 * pop_effect + 100 * regional_effect + noise
    IN PyMax(1500, PyMin(7500, estimated))

\* the i-th draw of the random stream of one run
Draw(noise, i) == noise[((i - 1) % Len(noise)) + 1]

EstimatedCols ==
    <<"country", "year", "congestion_level_pct", "travel_time_index", "estimation_method">>

\* the rule-based variant: every row of the panel estimated by the rule
RuleBasedEstimated(wb_df, noise) ==
    LET estimated(row, e) ==
            [country |-> row["country"],
             year |-> row["year"],
             congestion_level_pct |-> e,
             travel_time_index |-> IF e = NaN THEN NaN ELSE 10000 + e,
             estimation_method |-> "rule_based"]
    IN Table(EstimatedCols,
             [i \in 1..Len(wb_df.rows) |->
                estimated(wb_df.rows[i],
                          estimate_congestion(wb_df.rows[i], HasCol(wb_df, "road_per_capita"),
                                              Draw(noise, i)))])

feature_cols ==
    <<"gdp_per_capita", "urban_population_pct", "road_per_capita", "log_gdp_per_capita",
      "log_population", "population", "paved_roads_pct">>

available_features(merged) ==
    Filter(feature_cols, {i \in 1..Len(feature_cols) : HasCol(merged, feature_cols[i])})

\* RandomForestRegressor(random_state=42).fit(X, y).predict(x).  The forest is
\* a library; with a fixed seed its prediction is a function of the training
\* set and of x, and it is an average of training targets.  It is modelled by
\* the target of the nearest training row (the first one among equals).
Distance(a, b, features) ==
    SeqSum([k \in 1..Len(features) |->
              IF a[features[k]] = NaN \/ b[features[k]] = NaN THEN 0
              ELSE Abs(a[features[k]] - b[features[k]])])

RFPredict(X, x, features) ==
    LET best(d) == CHOOSE i \in 1..Len(X.rows) :
                     \A j \in 1..Len(X.rows) : d[i] < d[j] \/ (d[i] = d[j] /\ i <= j)
    IN X.rows[best([j \in 1..Len(X.rows) |-> Distance(X.rows[j], x, features)] @@ <<>>)]
             ["congestion_level_pct"]

\* Series.clip(lo, hi)
Clip(v, lo, hi) == IF v = NaN THEN NaN ELSE IF v < lo THEN lo ELSE IF v > hi THEN hi ELSE v

\* the Random Forest variant: missing covariates replaced by the median, every
\* row of the panel predicted, the prediction clipped to [10, 80]
MLEstimated(wb_df, merged) ==
    LET predicted(row, p) ==
            [country |-> row["country"],
             year |-> row["year"],
             congestion_level_pct |-> Clip(p, 1000, 8000),
             travel_time_index |-> IF p = NaN THEN NaN ELSE 10000 + p,
             estimation_method |-> "ml_random_forest"]
        fitted(features, X, X_full) ==
            Table(EstimatedCols,
                  [i \in 1..Len(wb_df.rows) |->
                     predicted(wb_df.rows[i], RFPredict(X, X_full.rows[i], features))])
        filled(features) ==
            fitted(features, FillnaMedian(merged, features), FillnaMedian(wb_df, features))
    IN filled(available_features(merged))

\* the fault of dropping the duplicates of the country alone
CombineByCountry(tomtom_country, estimated_data) ==
    LET actual == WithColumn(tomtom_country, "estimation_method", "actual_tomtom")
        combined == Concat(actual, estimated_data)
        sorted == SortValues(combined, <<"country", "year", "estimation_method">>)
        tagged(kept) ==
            Table(Append(kept.cols, "data_source"),
                  [i \in 1..Len(kept.rows) |->
                     [c \in Range(kept.cols) \cup {"data_source"} |->
                        IF c = "data_source" THEN kept.rows[i]["estimation_method"]
                        ELSE kept.rows[i][c]]])
    IN tagged(DropDuplicatesFirst(sorted, <<"country">>))

\* actual and estimated rows combined: sorted so that of two rows with one
\* key the one tagged actual_tomtom comes first, and the first is kept
Combine(tomtom_country, estimated_data) ==
    LET actual == WithColumn(tomtom_country, "estimation_method", "actual_tomtom")
        combined == Concat(actual, estimated_data)
        sorted == SortValues(combined, <<"country", "year", "estimation_method">>)
        tagged(kept) ==
            Table(Append(kept.cols, "data_source"),
                  [i \in 1..Len(kept.rows) |->
                     [c \in Range(kept.cols) \cup {"data_source"} |->
                        IF c = "data_source" THEN kept.rows[i]["estimation_method"]
                        ELSE kept.rows[i][c]]])
    IN tagged(DropDuplicatesFirst(sorted, KeyCols))

\* the whole script; noise is the random stream of the run
CongestionProxy(f, noise) ==
    IF ~Exists(f, WorldBankFile) \/ ~Exists(f, TomTomFile)
    THEN Result("error", f, {})
    ELSE LET wb_df == f[WorldBankFile]
             estimated_data(merged) == IF Len(merged.rows) < MinObservations
                                       THEN RuleBasedEstimated(wb_df, noise)
                                       ELSE MLEstimated(wb_df, merged)
             actual_count(combined) ==
                 Cardinality({i \in 1..Len(combined.rows) :
                                combined.rows[i]["data_source"] = "actual_tomtom"})
             \* the summary printed after the file is saved divides by actual_count
             saved(combined) ==
                 Result(IF actual_count(combined) = 0 THEN "error" ELSE "ok",
                        WriteFile(f, CongestionFile, combined), {CongestionFile})
             estimated(tomtom_country) ==
                 saved(SortValues(Combine(tomtom_country,
                                          estimated_data(Merged(tomtom_country, wb_df))),
                                  KeyCols))
         IN estimated(TomtomCountry(f[TomTomFile]))

\* the run draws from the random stream only in the rule-based variant
DrawsNoise(f) ==
    /\ Exists(f, WorldBankFile) /\ Exists(f, TomTomFile)
    /\ Len(Merged(TomtomCountry(f[TomTomFile]), f[WorldBankFile]).rows) < MinObservations

(***************************************************************************)
(* The record of the script that ran last: its name, its exit status, the  *)
(* files it wrote, the data directory it started from and the random       *)
(* stream it drew from, and how many times in a row the script has run     *)
(***************************************************************************)
NoFiles == [name \in {} |-> Table(<<>>, <<>>)]

NoRun ==
    [script |-> "none", status |-> "none", written |-> {}, before |-> NoFiles,
     noise |-> <<>>, pass |-> 0]

\* the runs of one script in a row that are told apart
MaxPasses == 2

Ran(script, before, r, noise) ==
    [script |-> script, status |-> r.status, written |-> r.written, before |-> before,
     noise |-> noise,
     pass |-> IF run.script = script
              THEN (IF run.pass < MaxPasses THEN run.pass + 1 ELSE MaxPasses)
              ELSE 1]

OrchIdle ==
    [pc |-> "idle", scripts |-> {}, steps |-> <<>>, i |-> 0, started |-> <<>>,
     failed_steps |-> <<>>, successful_steps |-> 0, faults |-> 0, exit |-> 0 - 1,
     response |-> "none"]

(***************************************************************************)
(* Inputs of the estimator: base panels and TomTom city tables             *)
(***************************************************************************)
NumCountries == 3

NumYears == 7

FirstYear == 2015

PanelCountries == <<"India", "Japan", "Peru", "Kenya", "Brazil">>

GdpOf ==
    [India |-> 2000, Japan |-> 39000, Peru |-> 6000, Kenya |-> 1500, Brazil |-> 9000,
     Philippines |-> 3500]

UrbanOf ==
    [India |-> 35, Japan |-> 92, Peru |-> 78, Kenya |-> 28, Brazil |-> 87,
     Philippines |-> 47]

PopulationOf ==
    [India |-> 1100000000, Japan |-> 125000000, Peru |-> 33000000, Kenya |-> 52000000,
     Brazil |-> 210000000, Philippines |-> 110000000]

WorldBankCols == <<"country", "year", "gdp_per_capita", "population", "urban_population_pct">>

\* the base panel of the first nc of the countries over the first ny years,
\* the covariate null_col missing in row null_at (0: in none), with or
\* without the engineered column road_per_capita
BasePanel(countries, nc, ny, null_at, null_col, road) ==
    LET cols == IF road THEN Append(WorldBankCols, "road_per_capita") ELSE WorldBankCols
        row(i) ==
            LET c == countries[((i - 1) \div ny) + 1]
                y == (i - 1) % ny
                full == [country |-> c, year |-> FirstYear + y,
                         gdp_per_capita |-> GdpOf[c] + 100 * y,
                         population |-> PopulationOf[c],
                         urban_population_pct |-> UrbanOf[c],
                         road_per_capita |-> 150 + 100 * y]
            IN [d \in Range(cols) |-> IF i = null_at /\ d = null_col THEN NaN ELSE full[d]]
    IN Table(cols, [i \in 1..(nc * ny) |-> row(i)])

TomTomCols ==
    <<"city", "country", "year", "congestion_level_pct", "travel_time_index", "rank",
      "source">>

CityRow(city, country, year, pct) ==
    [city |-> city, country |-> country, year |-> year, congestion_level_pct |-> pct,
     travel_time_index |-> 10000 + pct, rank |-> 8, source |-> "TomTom Traffic Index"]

\* the city table with one city for each of the first cover keys of the
\* panel, a second city for the first key when two, and a city of a country
\* the panel lacks when extra
TomTomTable(wb_df, cover, two, extra) ==
    Table(TomTomCols,
          [i \in 1..cover |->
             CityRow("Manila", wb_df.rows[i]["country"], wb_df.rows[i]["year"],
                     3000 + 600 * (i % 7))]
          \o (IF two /\ cover > 0
              THEN <<CityRow("Cebu", wb_df.rows[1]["country"], wb_df.rows[1]["year"], 6000)>>
              ELSE <<>>)
          \o (IF extra THEN <<CityRow("Hanoi", "Vietnam", FirstYear, 4800)>> ELSE <<>>))

\* the random streams of a run: np.random.normal(0, 2) draws one standard
\* deviation below the mean or one above it, the stream has period two
NoiseDraws == {0 - 200, 200}

NoiseStreams == {<<a, b>> : a, b \in NoiseDraws}

Covariates == {"gdp_per_capita", "population", "urban_population_pct"}

\* the files a script reads, as they were when it started
Inputs(f, names) == [name \in names \cap DOMAIN f |-> f[name]]

\* the city table t with a congestion of 85 percent measured in every city of
\* the country of its last row
Jammed(t) ==
    Table(t.cols,
          [i \in 1..Len(t.rows) |->
             IF t.rows[i]["country"] = t.rows[Len(t.rows)]["country"]
             THEN [t.rows[i] EXCEPT !["congestion_level_pct"] = 8500,
                                    !["travel_time_index"] = 18500]
             ELSE t.rows[i]])

InitEstimator ==
    /\ \E nc \in 1..NumCountries, ny \in {1, NumYears}, road \in BOOLEAN,
          null_col \in Covariates \cup {"none"}, cities \in {"one", "two", "extra", "jammed"} :
         \E cover \in {0, nc * ny - 1, nc * ny} :
            LET wb_df == BasePanel(PanelCountries, nc, ny, IF null_col = "none" THEN 0 ELSE 1, null_col, road)
            IN fs = [name \in {WorldBankFile, TomTomFile} |->
                       IF name = WorldBankFile THEN wb_df
                       ELSE IF cities = "jammed" /\ cover > 0
                       THEN Jammed(TomTomTable(wb_df, cover, FALSE, FALSE))
                       ELSE TomTomTable(wb_df, cover, cities = "two", cities = "extra")]
    /\ run = NoRun
    /\ orch = OrchIdle

EstimatorScript == "data_gathering_congestion_proxy.py"

RunCongestionProxy ==
    \E noise \in IF DrawsNoise(fs) THEN NoiseStreams ELSE {<<>>} :
       \E r \in {CongestionProxy(fs, noise)} :
          /\ fs' = r.fs
          /\ run' = Ran(EstimatorScript,
                        Inputs(fs, {WorldBankFile, TomTomFile}), r, noise)
          /\ UNCHANGED orch

NextEstimator == RunCongestionProxy

SpecEstimator == InitEstimator /\ [][NextEstimator]_vars

(***************************************************************************)
(* Properties of the Congestion Proxy Estimator                            *)
(***************************************************************************)
\* the estimator ran last and saved the comprehensive table
EstimatorRan == run.script = EstimatorScript /\ CongestionFile \in run.written

\* the rows of table t with the key of row k
RowsWithKey(t, k) == {j \in 1..Len(t.rows) : SameKey(t.rows[j], k, KeyCols)}

DataSourceTags == {"actual_tomtom", "ml_random_forest", "rule_based"}

\* the variant the last run of the estimator used
UsedRuleBased == EstimatorRan /\ DrawsNoise(run.before)

UsedRandomForest == EstimatorRan /\ ~DrawsNoise(run.before)

\* C2: after the estimator has run, every (country, year) key of the base
\* panel has exactly one row in the comprehensive congestion table, and that
\* row has a congestion value that is not missing and one of the three
\* provenance tags
CoverageTotality ==
    EstimatorRan =>
        \A i \in 1..Len(run.before[WorldBankFile].rows) :
            LET hits == RowsWithKey(fs[CongestionFile], run.before[WorldBankFile].rows[i])
            IN /\ Cardinality(hits) = 1
               /\ \A j \in hits :
                    /\ fs[CongestionFile].rows[j]["congestion_level_pct"] # NaN
                    /\ fs[CongestionFile].rows[j]["data_source"] \in DataSourceTags

\* a rule-based run over a panel with a missing covariate whose keys are
\* partly measured and partly estimated
CoverageTotalityWitness ==
    /\ UsedRuleBased
    /\ \E i \in 1..Len(run.before[WorldBankFile].rows) :
         run.before[WorldBankFile].rows[i]["urban_population_pct"] = NaN
    /\ \E j, k \in 1..Len(fs[CongestionFile].rows) :
         /\ fs[CongestionFile].rows[j]["data_source"] = "actual_tomtom"
         /\ fs[CongestionFile].rows[k]["data_source"] = "rule_based"

\* C3: a key that the aggregated TomTom table and the base panel (hence the
\* estimated table) both have keeps the measured value and the tag
\* actual_tomtom in the comprehensive table
ActualPrecedence ==
    EstimatorRan =>
        LET actual == TomtomCountry(run.before[TomTomFile]) IN
        \A a \in 1..Len(actual.rows) :
            RowsWithKey(run.before[WorldBankFile], actual.rows[a]) # {} =>
                \A j \in RowsWithKey(fs[CongestionFile], actual.rows[a]) :
                    /\ fs[CongestionFile].rows[j]["congestion_level_pct"]
                         = actual.rows[a]["congestion_level_pct"]
                    /\ fs[CongestionFile].rows[j]["data_source"] = "actual_tomtom"

\* a Random Forest run in which a measured key is also a key of the panel
\* and another key of the panel is estimated
ActualPrecedenceWitness ==
    /\ UsedRandomForest
    /\ \E a \in 1..Len(TomtomCountry(run.before[TomTomFile]).rows) :
         RowsWithKey(run.before[WorldBankFile],
                     TomtomCountry(run.before[TomTomFile]).rows[a]) # {}
    /\ \E k \in 1..Len(fs[CongestionFile].rows) :
         fs[CongestionFile].rows[k]["data_source"] = "ml_random_forest"

\* C9: a second run of the estimator on the input files of the first saves
\* the table the first run saved
EstimatorDeterministic ==
    [][(EstimatorRan /\ EstimatorRan' /\ run'.before = run.before)
          => fs'[CongestionFile] = fs[CongestionFile]]_vars

\* the panel row r with every missing covariate replaced by the median of
\* that covariate over the panel
MedianImputed(wb_df, r) ==
    [c \in DOMAIN r |->
        IF c \in Covariates /\ r[c] = NaN THEN Median(Column(wb_df, c)) ELSE r[c]]

\* C10: a row of the base panel with a missing covariate is kept, and its
\* rule-based estimate is the estimate of the row with the medians filled in
RuleBasedImputesMedian ==
    UsedRuleBased =>
        LET wb_df == run.before[WorldBankFile] IN
        \A i \in 1..Len(wb_df.rows) :
            (\E c \in Covariates : wb_df.rows[i][c] = NaN) =>
                /\ RowsWithKey(fs[CongestionFile], wb_df.rows[i]) # {}
                /\ \A j \in RowsWithKey(fs[CongestionFile], wb_df.rows[i]) :
                     fs[CongestionFile].rows[j]["data_source"] = "rule_based" =>
                        fs[CongestionFile].rows[j]["congestion_level_pct"]
                          = estimate_congestion(MedianImputed(wb_df, wb_df.rows[i]),
                                                HasCol(wb_df, "road_per_capita"),
                                                Draw(run.noise, i))

\* the tag of the variant that a run on the directory f selects
SelectedVariant(f) ==
    IF Len(Merged(TomtomCountry(f[TomTomFile]), f[WorldBankFile]).rows) < 20
    THEN "rule_based" ELSE "ml_random_forest"

\* the selection and the tagging alone, whatever the exit status of the run:
\* every row that is not a measurement carries the tag of the variant
VariantTagged ==
    EstimatorRan =>
       \A j \in 1..Len(fs[CongestionFile].rows) :
          fs[CongestionFile].rows[j]["data_source"] # "actual_tomtom" =>
             fs[CongestionFile].rows[j]["data_source"] = SelectedVariant(run.before)

\* C11: a run of the estimator on its two input files ends successfully and
\* has written the comprehensive table, whichever variant it selected, and
\* every row of the table that is not a measurement carries the tag
\* rule_based when the inner join of the aggregated measurements with the
\* base panel has fewer than 20 rows and the tag ml_random_forest otherwise
VariantSelected ==
    (/\ run.script = EstimatorScript
     /\ Exists(run.before, WorldBankFile) /\ Exists(run.before, TomTomFile))
    => /\ run.status = "ok"
       /\ CongestionFile \in run.written
       /\ VariantTagged

\* C28: in every row of the comprehensive table that is not a measurement,
\* travel_time_index is 1 + congestion_level_pct / 100 of the same row
TravelTimeConsistent ==
    EstimatorRan =>
        \A j \in 1..Len(fs[CongestionFile].rows) :
            fs[CongestionFile].rows[j]["data_source"] # "actual_tomtom" =>
                fs[CongestionFile].rows[j]["travel_time_index"]
                   = 10000 + fs[CongestionFile].rows[j]["congestion_level_pct"]

\* the same for the rows of the rule-based variant
TravelTimeConsistentRuleBased ==
    EstimatorRan =>
        \A j \in 1..Len(fs[CongestionFile].rows) :
            fs[CongestionFile].rows[j]["data_source"] = "rule_based" =>
                fs[CongestionFile].rows[j]["travel_time_index"]
                   = 10000 + fs[CongestionFile].rows[j]["congestion_level_pct"]

(***************************************************************************)
(* merge_panel.py: the Panel Merger                                        *)
(***************************************************************************)
UitpFile == "uitp_modal_share.csv"

PsaFile == "psa_data.csv"

OpenaqFile == "openaq_pm25.csv"

OverpassFile == "overpass_data.csv"

LtfrbFile == "ltfrb_data.csv"

JicaFile == "jica_mrt_lrt.csv"

AdbFile == "adb_projects.csv"

MergeReportFile == "panel_merge_report.csv"

MergeReportText == "panel_merge_report.txt"

\* df.drop(columns=names, errors='ignore')
DropColumns(t, names) ==
    LET cols == Filter(t.cols, {i \in 1..Len(t.cols) : t.cols[i] \notin names}) IN
    Table(cols, [i \in 1..Len(t.rows) |-> [c \in Range(cols) |-> t.rows[i][c]]])

\* df[c] = vals, a value for every row
Assign(t, c, vals) ==
    LET cols == IF HasCol(t, c) THEN t.cols ELSE Append(t.cols, c) IN
    Table(cols,
          [i \in 1..Len(t.rows) |->
             [d \in Range(cols) |-> IF d = c THEN vals[i] ELSE t.rows[i][d]]])

\* the number of distinct values of column c that are not missing
Nunique(t, c) == Cardinality({t.rows[i][c] : i \in 1..Len(t.rows)} \ {NullOf(c)})

\* the fault of an inner join: the rows without a match are dropped
JoinedInner(st, right, on, suffix, source, coverage) ==
    LET reported(df) ==
            [df |-> df,
             report |-> Append(st.report,
                               [source |-> source,
                                rows_added |-> Len(df.rows) - Len(st.df.rows),
                                coverage |-> coverage])]
    IN reported(Merge(st.df, right, on, "inner", suffix))

\* one left join of the panel with a source, and its line in the merge report
Joined(st, right, on, suffix, source, coverage) ==
    LET reported(df) ==
            [df |-> df,
             report |-> Append(st.report,
                               [source |-> source,
                                rows_added |-> Len(df.rows) - Len(st.df.rows),
                                coverage |-> coverage])]
    IN reported(Merge(st.df, right, on, "left", suffix))

ModalShareCols ==
    <<"modal_share_public", "modal_share_private", "modal_share_walk", "modal_share_bike">>

\* the UITP table reduced to one row per (country, year) when it is city-level
UitpCountry(uitp) ==
    IF HasCol(uitp, "city") THEN GroupByMean(uitp, KeyCols, ModalShareCols) ELSE uitp

\* a / b * 100 on floats, in units of 1e-4 percentage points
Infinity == 2147483647

PctOf(a, b) ==
    IF a = NaN \/ b = NaN THEN NaN
    ELSE IF b = 0 THEN (IF a = 0 THEN NaN ELSE Infinity)
    ELSE (a * 1000000) \div b

\* transit_investment_gdp created when the panel lacks it or has no value of it
TransitInvestment(df) ==
    IF \/ ~HasCol(df, "transit_investment_gdp")
       \/ \A i \in 1..Len(df.rows) : df.rows[i]["transit_investment_gdp"] = NaN
    THEN IF HasCol(df, "adb_loan_amount") /\ HasCol(df, "gdp_current_usd")
         THEN Assign(df, "transit_investment_gdp",
                     [i \in 1..Len(df.rows) |->
                        PctOf(df.rows[i]["adb_loan_amount"], df.rows[i]["gdp_current_usd"])])
         ELSE IF HasCol(df, "road_length_km") /\ HasCol(df, "gdp_current_usd")
         THEN Assign(df, "transit_investment_gdp",
                     [i \in 1..Len(df.rows) |->
                        PctOf(df.rows[i]["road_length_km"], df.rows[i]["gdp_current_usd"])])
         ELSE WithColumn(df, "transit_investment_gdp", 0)
    ELSE df

\* df.groupby('country')[c].shift(1): the value of the row before in the
\* same country, missing for the first row of a country
ShiftByCountry(df, c) ==
    [i \in 1..Len(df.rows) |->
        LET prev == {j \in 1..(i - 1) : df.rows[j]["country"] = df.rows[i]["country"]}
        IN IF df.rows[i]["country"] = None \/ prev = {} THEN NaN
           ELSE df.rows[CHOOSE j \in prev : \A k \in prev : k <= j][c]]

rename_map ==
    << <<"congestion_level_pct", "congestion_index">>,
       <<"congestion_level", "congestion_index">>,
       <<"pm25_annual_mean", "pm25">>,
       <<"pm25_value", "pm25">>,
       <<"urban_population_pct", "population_density">>,
       <<"modal_share", "modal_share_public">> >>

\* df.rename(columns={old: new})
RenameColumn(t, old, new) ==
    LET cols == [i \in 1..Len(t.cols) |-> IF t.cols[i] = old THEN new ELSE t.cols[i]] IN
    Table(cols,
          [i \in 1..Len(t.rows) |->
             [c \in Range(cols) |-> IF c = new THEN t.rows[i][old] ELSE t.rows[i][c]]])

RECURSIVE Renamed(_, _)
\* the first k entries of rename_map applied in order, each one only when the
\* old name is a column and the new name is not
Renamed(df, k) ==
    IF k = 0 THEN df
    ELSE LET d == Renamed(df, k - 1)
             old == rename_map[k][1]
             new == rename_map[k][2]
         IN IF HasCol(d, old) /\ ~HasCol(d, new) THEN RenameColumn(d, old, new) ELSE d

final_columns ==
    <<"country", "year", "transit_investment_gdp", "modal_share_public",
      "congestion_index", "gdp_per_capita", "pm25", "population_density",
      "log_gdp_per_capita", "transit_invest_lag1", "high_invest_dummy",
      "data_source", "estimation_method">>

\* df[final_columns], a column the panel lacks added with no value
FinalPanel(df) ==
    Table(final_columns,
          [i \in 1..Len(df.rows) |->
             [c \in Range(final_columns) |->
                IF HasCol(df, c) THEN df.rows[i][c] ELSE NullOf(c)]])

\* the raw table joined whenever it exists
CongestionSourceRaw(f) ==
    IF Exists(f, TomTomFile) THEN TomTomFile
    ELSE IF Exists(f, CongestionFile) THEN CongestionFile
    ELSE "none"

\* the congestion source that is joined: the comprehensive table if it
\* exists, else the raw TomTom table if it exists, else none
CongestionSource(f) ==
    IF Exists(f, CongestionFile) THEN CongestionFile
    ELSE IF Exists(f, TomTomFile) THEN TomTomFile
    ELSE "none"

\* the joins of the script, in its order
MergedSources(f) ==
    LET join(st, name, right, on, suffix, coverage) ==
            IF Exists(f, name) THEN Joined(st, right, on, suffix, name, coverage) ELSE st
        congestion(st) ==
            IF CongestionSource(f) = CongestionFile
            THEN Joined(st, f[CongestionFile], KeyCols, "_congestion", CongestionFile,
                        ToString(Len(f[CongestionFile].rows)) \o " obs, "
                        \o ToString(Nunique(f[CongestionFile], "country")) \o " countries")
            ELSE IF CongestionSource(f) = TomTomFile
            THEN Joined(st, f[TomTomFile], KeyCols, "_tomtom", TomTomFile, None)
            ELSE st
        overpass(st) ==
            IF Exists(f, OverpassFile) /\ ~HasCol(f[OverpassFile], "year")
            THEN Joined(st, DropColumns(f[OverpassFile], {"note"}), <<"country">>,
                        "_overpass", OverpassFile, None)
            ELSE join(st, OverpassFile, f[OverpassFile], KeyCols, "_overpass", None)
        s1 == congestion([df |-> f[WorldBankFile], report |-> <<>>])
        s2 == join(s1, UitpFile, UitpCountry(f[UitpFile]), KeyCols, "_uitp", None)
        s3 == join(s2, PsaFile, f[PsaFile], KeyCols, "_psa", None)
        s4 == join(s3, OpenaqFile, f[OpenaqFile], KeyCols, "_openaq", None)
        s5 == overpass(s4)
        s6 == join(s5, LtfrbFile, f[LtfrbFile], KeyCols, "_ltfrb", None)
        s7 == join(s6, JicaFile, f[JicaFile], KeyCols, "_jica", None)
    IN join(s7, AdbFile, f[AdbFile], KeyCols, "_adb", None)

MergeReportCols == <<"source", "rows_added", "coverage">>

\* the whole script
MergePanel(f) ==
    IF ~Exists(f, WorldBankFile) THEN Result("error", f, {})
    \* the coverage lines printed for the comprehensive table divide by its length
    ELSE IF /\ Exists(f, CongestionFile)
            /\ HasCol(f[CongestionFile], "data_source")
            /\ Len(f[CongestionFile].rows) = 0
    THEN Result("error", f, {})
    ELSE LET lagged(sorted) ==
                 IF HasCol(sorted, "transit_invest_lag1") THEN sorted
                 ELSE Assign(sorted, "transit_invest_lag1",
                             ShiftByCountry(sorted, "transit_investment_gdp"))
             text(df_clean) ==
                 Table(<<"initial_rows", "final_rows">>,
                       <<[initial_rows |-> Len(f[WorldBankFile].rows),
                          final_rows |-> Len(df_clean.rows)]>>)
             \* the coverage lines printed before the panel is saved divide by its length
             saved(df_clean, report_df) ==
                 IF Len(df_clean.rows) = 0 THEN Result("error", f, {})
                 ELSE Result("ok",
                             WriteFile(WriteFile(WriteFile(f, CleanPanelFile, df_clean),
                                                 MergeReportFile, report_df),
                                       MergeReportText, text(df_clean)),
                             {CleanPanelFile, MergeReportFile, MergeReportText})
             cleaned(merged) ==
                 saved(FinalPanel(Renamed(lagged(SortValues(TransitInvestment(merged.df),
                                                            KeyCols)),
                                          Len(rename_map))),
                       Table(MergeReportCols, merged.report))
         IN cleaned(MergedSources(f))

(***************************************************************************)
(* Inputs of the merger: base panels as gathered or as engineered, the     *)
(* congestion sources and every combination of the auxiliary sources       *)
(***************************************************************************)
NumMergeCountries == 2

MergeYears == 3

MergeCountries == <<"Philippines", "India", "Japan">>

\* the base panel with the World Bank columns gdp_current_usd (millions) and
\* road_length_km
FullPanel(nc, ny) ==
    LET core == BasePanel(MergeCountries, nc, ny, 0, "none", FALSE)
        gdp == Assign(core, "gdp_current_usd",
                      [i \in 1..Len(core.rows) |-> 4000 * core.rows[i]["urban_population_pct"]])
    IN Assign(gdp, "road_length_km",
              [i \in 1..Len(core.rows) |-> 200 + 10 * (core.rows[i]["year"] - FirstYear)])

\* the base panel after feature_engineering.py
EngineeredPanel(nc, ny) ==
    LET full == FullPanel(nc, ny)
        logged == Assign(full, "log_gdp_per_capita",
                         [i \in 1..Len(full.rows) |-> 800 + full.rows[i]["gdp_per_capita"] \div 1000])
        invested == TransitInvestment(logged)
        dummy == Assign(invested, "high_invest_dummy",
                        [i \in 1..Len(full.rows) |-> IF full.rows[i]["year"] > FirstYear THEN 1 ELSE 0])
    IN Assign(dummy, "transit_invest_lag1", ShiftByCountry(dummy, "transit_investment_gdp"))

MergeBase(shape, nc, ny) ==
    IF shape = "core" THEN BasePanel(MergeCountries, nc, ny, 0, "none", FALSE)
    ELSE IF shape = "full" THEN FullPanel(nc, ny)
    ELSE EngineeredPanel(nc, ny)

\* the auxiliary sources as their gatherers write them, for the Philippines
\* in the first two years
UitpTable ==
    Table(<<"city", "country", "year", "modal_share_public", "modal_share_private",
            "modal_share_walk", "modal_share_bike", "source">>,
          <<[city |-> "Metro Manila", country |-> "Philippines", year |-> FirstYear,
             modal_share_public |-> 285, modal_share_private |-> 450,
             modal_share_walk |-> 200, modal_share_bike |-> 65, source |-> "JICA MMUTIS"],
            [city |-> "Cebu", country |-> "Philippines", year |-> FirstYear,
             modal_share_public |-> 225, modal_share_private |-> 500,
             modal_share_walk |-> 210, modal_share_bike |-> 55, source |-> "DOTr Study"],
            [city |-> "Metro Manila", country |-> "Philippines", year |-> FirstYear + 1,
             modal_share_public |-> 290, modal_share_private |-> 445,
             modal_share_walk |-> 200, modal_share_bike |-> 65, source |-> "DOTr Study"]>>)

PsaTable ==
    Table(<<"country", "year", "population", "urban_population_pct", "metro_manila_population">>,
          [y \in 1..2 |->
             [country |-> "Philippines", year |-> FirstYear + y - 1,
              population |-> 100000000 + 1000000 * y, urban_population_pct |-> 50 + y,
              metro_manila_population |-> 12000000 + 100000 * y]])

OpenaqTable ==
    Table(<<"country", "year", "pm25">>,
          [y \in 1..2 |->
             [country |-> "Philippines", year |-> FirstYear + y - 1, pm25 |-> 221 - 3 * y]])

OverpassTable ==
    Table(<<"country", "road_length_osm", "rail_length_osm", "data_source", "note">>,
          <<[country |-> "Philippines", road_length_osm |-> 100000, rail_length_osm |-> 500,
             data_source |-> "OpenStreetMap via Overpass API",
             note |-> "Placeholder - API timeout or error"]>>)

LtfrbTable ==
    Table(<<"country", "year", "fleet_size", "source">>,
          [y \in 1..2 |->
             [country |-> "Philippines", year |-> FirstYear + y - 1,
              fleet_size |-> 42000 + 500 * y, source |-> "LTFRB Annual Report"]])

JicaTable ==
    Table(<<"country", "year", "total_rail_length_km", "source">>,
          [y \in 1..2 |->
             [country |-> "Philippines", year |-> FirstYear + y - 1,
              total_rail_length_km |-> 50 + y, source |-> "JICA/DOTr/LRTA Reports"]])

AdbTable ==
    Table(<<"country", "year", "adb_loan_amount", "num_projects">>,
          <<[country |-> "Philippines", year |-> FirstYear, adb_loan_amount |-> 270,
             num_projects |-> 1]>>)

AuxFiles == {UitpFile, PsaFile, OpenaqFile, OverpassFile, LtfrbFile, JicaFile, AdbFile}

AuxTable(name) ==
    IF name = UitpFile THEN UitpTable
    ELSE IF name = PsaFile THEN PsaTable
    ELSE IF name = OpenaqFile THEN OpenaqTable
    ELSE IF name = OverpassFile THEN OverpassTable
    ELSE IF name = LtfrbFile THEN LtfrbTable
    ELSE IF name = JicaFile THEN JicaTable
    ELSE AdbTable

\* the files the merger reads
MergeInputs == {WorldBankFile, TomTomFile, CongestionFile} \cup AuxFiles

\* the data directory with the base panel, the auxiliary sources aux, the
\* TomTom table (one city for every measured key, or a second city for the
\* first key) and, when comprehensive, the table the estimator makes of them
MergeDirectory(wb_df, aux, tomtom, comprehensive) ==
    LET sources == [name \in {WorldBankFile} \cup aux |->
                      IF name = WorldBankFile THEN wb_df ELSE AuxTable(name)]
        gathered == IF tomtom = "none" THEN sources
                    ELSE WriteFile(sources, TomTomFile,
                                   TomTomTable(wb_df, 2, tomtom = "two", FALSE))
    IN IF comprehensive THEN CongestionProxy(gathered, <<200, 0 - 200>>).fs ELSE gathered

InitMerge ==
    /\ \E nc \in 1..NumMergeCountries, shape \in {"core", "full", "engineered"},
          aux \in SUBSET AuxFiles, tomtom \in {"none", "one", "two"},
          comprehensive \in BOOLEAN :
         /\ comprehensive => tomtom # "none"
         /\ fs = MergeDirectory(MergeBase(shape, nc, MergeYears), aux, tomtom, comprehensive)
    /\ run = NoRun
    /\ orch = OrchIdle

MergeScript == "merge_panel.py"

RunMergePanel ==
    \E r \in {MergePanel(fs)} :
    /\ fs' = r.fs
    /\ run' = Ran(MergeScript, Inputs(fs, MergeInputs), r, <<>>)
    /\ UNCHANGED orch

NextMerge == RunMergePanel

SpecMerge == InitMerge /\ [][NextMerge]_vars

(***************************************************************************)
(* Properties of the Panel Merger                                          *)
(***************************************************************************)
\* the merger ran last and saved the clean panel
MergerRan == run.script = MergeScript /\ CleanPanelFile \in run.written

\* no two rows of table t have the same (country, year)
KeysUnique(t) ==
    \A i, j \in 1..Len(t.rows) : SameKey(t.rows[i], t.rows[j], KeyCols) => i = j

\* C1: the clean panel the merger saves from a base panel with unique keys
\* has no two rows with the same (country, year)
CleanPanelKeysUnique ==
    (MergerRan /\ KeysUnique(run.before[WorldBankFile])) => KeysUnique(fs[CleanPanelFile])

\* the sources named in the merge report
ReportedSources == {fs[MergeReportFile].rows[i]["source"] : i \in 1..Len(fs[MergeReportFile].rows)}

\* the congestion values that table t has for the key of row k
CongestionValues(t, k) ==
    {t.rows[j]["congestion_level_pct"] : j \in RowsWithKey(t, k)}

\* C12: the merge joins the comprehensive table when it exists and the raw
\* TomTom table only when the comprehensive table does not exist, never
\* both, and the congestion value of every row of the clean panel is a value
\* that the joined table has for the key of that row (null if it has none)
OneCongestionSource ==
    MergerRan =>
        LET comprehensive == Exists(run.before, CongestionFile)
            raw == Exists(run.before, TomTomFile)
            joined == IF comprehensive THEN {CongestionFile}
                      ELSE IF raw THEN {TomTomFile} ELSE {}
        IN /\ ReportedSources \cap {CongestionFile, TomTomFile} = joined
           /\ \A i \in 1..Len(fs[CleanPanelFile].rows) :
                \A name \in joined :
                   fs[CleanPanelFile].rows[i]["congestion_index"]
                     \in IF RowsWithKey(run.before[name], fs[CleanPanelFile].rows[i]) = {}
                         THEN {NaN}
                         ELSE CongestionValues(run.before[name], fs[CleanPanelFile].rows[i])
           /\ joined = {} =>
                \A i \in 1..Len(fs[CleanPanelFile].rows) :
                   fs[CleanPanelFile].rows[i]["congestion_index"] = NaN

\* a merge with both tables in the directory, the raw table having two
\* cities for one key, so that the two tables differ at that key
OneCongestionSourceWitness ==
    /\ MergerRan
    /\ Exists(run.before, CongestionFile) /\ Exists(run.before, TomTomFile)
    /\ \E i \in 1..Len(fs[CleanPanelFile].rows) :
         /\ RowsWithKey(run.before[TomTomFile], fs[CleanPanelFile].rows[i]) # {}
         /\ fs[CleanPanelFile].rows[i]["congestion_index"]
              \notin CongestionValues(run.before[TomTomFile], fs[CleanPanelFile].rows[i])

\* some table of the directory f has the column c
SomeTableHas(f, c) == \E name \in DOMAIN f : HasCol(f[name], c)

\* a table of the directory f has the canonical column c, under its own name
\* or under a name that is renamed to it, or has the columns it is derived of
Supplied(f, c) ==
    \/ SomeTableHas(f, c)
    \/ \E k \in 1..Len(rename_map) : rename_map[k][2] = c /\ SomeTableHas(f, rename_map[k][1])
    \/ /\ c \in {"transit_investment_gdp", "transit_invest_lag1"}
       /\ \/ SomeTableHas(f, "transit_investment_gdp")
          \/ /\ SomeTableHas(f, "gdp_current_usd")
             /\ SomeTableHas(f, "adb_loan_amount") \/ SomeTableHas(f, "road_length_km")

\* the clean panel has the 13 canonical columns in their order
CanonicalColumns ==
    MergerRan => Len(fs[CleanPanelFile].cols) = 13 /\ fs[CleanPanelFile].cols = final_columns

\* C13: the clean panel has the 13 canonical columns in their order, and a
\* canonical column that no table read by the merge supplied has no value in
\* any row
CanonicalSchema ==
    MergerRan =>
        /\ CanonicalColumns
        /\ \A c \in Range(final_columns) :
              ~Supplied(run.before, c) =>
                 \A i \in 1..Len(fs[CleanPanelFile].rows) :
                    IsNull(c, fs[CleanPanelFile].rows[i][c])

\* the (country, year) keys of table t
Keys(t) == {<<t.rows[i]["country"], t.rows[i]["year"]>> : i \in 1..Len(t.rows)}

\* the static source is joined on country alone, and its column data_source
\* is the one the clean panel keeps
StaticSourceKept ==
    /\ Exists(run.before, OverpassFile) /\ ~HasCol(run.before[OverpassFile], "year")
    /\ ~Exists(run.before, CongestionFile)

\* C14: the keys of the clean panel are the keys of the base panel, and the
\* rows of one country have, in every year, the value that the static source
\* has for the country (none if it has no row of the country)
KeysOfBasePanel ==
    MergerRan =>
        /\ Keys(fs[CleanPanelFile]) = Keys(run.before[WorldBankFile])
        /\ StaticSourceKept =>
              \A i \in 1..Len(fs[CleanPanelFile].rows) :
                 fs[CleanPanelFile].rows[i]["data_source"]
                    \in IF \E j \in 1..Len(run.before[OverpassFile].rows) :
                             run.before[OverpassFile].rows[j]["country"]
                                = fs[CleanPanelFile].rows[i]["country"]
                        THEN {run.before[OverpassFile].rows[j]["data_source"] :
                                j \in {k \in 1..Len(run.before[OverpassFile].rows) :
                                         run.before[OverpassFile].rows[k]["country"]
                                            = fs[CleanPanelFile].rows[i]["country"]}}
                        ELSE {None}

\* a merge of sources that lack keys of the base panel, among them the
\* static source, whose value is in the rows of several years of its country
\* and in no row of another country
KeysOfBasePanelWitness ==
    /\ MergerRan /\ StaticSourceKept
    /\ Exists(run.before, AdbFile) /\ Exists(run.before, TomTomFile)
    /\ \E i, j, k \in 1..Len(fs[CleanPanelFile].rows) :
         /\ fs[CleanPanelFile].rows[i]["country"] = fs[CleanPanelFile].rows[j]["country"]
         /\ fs[CleanPanelFile].rows[i]["year"] # fs[CleanPanelFile].rows[j]["year"]
         /\ fs[CleanPanelFile].rows[i]["data_source"] # None
         /\ fs[CleanPanelFile].rows[j]["data_source"] # None
         /\ fs[CleanPanelFile].rows[k]["data_source"] = None

\* C27: every data_source of the clean panel that is not missing is one of
\* the tags actual_tomtom, ml_random_forest, rule_based
CleanPanelTagged ==
    MergerRan =>
        \A i \in 1..Len(fs[CleanPanelFile].rows) :
            fs[CleanPanelFile].rows[i]["data_source"] \in DataSourceTags \cup {None}

\* the same when the comprehensive congestion table is joined
CleanPanelTaggedByEstimator ==
    (MergerRan /\ Exists(run.before, CongestionFile)) =>
        \A i \in 1..Len(fs[CleanPanelFile].rows) :
            fs[CleanPanelFile].rows[i]["data_source"] \in DataSourceTags \cup {None}

\* the rows of the clean panel for the country of row i in the year before
PreviousYear(t, i) ==
    {j \in 1..Len(t.rows) :
        /\ t.rows[j]["country"] = t.rows[i]["country"]
        /\ t.rows[j]["year"] = t.rows[i]["year"] - 1}

\* in table t the lag of every row is the investment of its country in the
\* year before, and missing when t has no row of the country in that year
LaggedByYear(t) ==
    \A i \in 1..Len(t.rows) :
        t.rows[i]["transit_invest_lag1"]
           \in IF PreviousYear(t, i) = {} THEN {NaN}
               ELSE {t.rows[j]["transit_investment_gdp"] : j \in PreviousYear(t, i)}

\* C30: in the clean panel transit_invest_lag1 of (country, y) is
\* transit_investment_gdp of (country, y - 1), and missing when the panel has
\* no row for (country, y - 1)
LagIsPreviousYear == MergerRan => LaggedByYear(fs[CleanPanelFile])

\* the same for the clean panels without a repeated key
LagIsPreviousYearUniqueKeys ==
    (MergerRan /\ KeysUnique(fs[CleanPanelFile])) => LaggedByYear(fs[CleanPanelFile])

\* the mean of the values that the rows of the city-level table t with the
\* key of row k have in column c; null when t has no row with that key
CityMean(t, k, c) ==
    Mean([j \in 1..Len(t.rows) |-> IF SameKey(t.rows[j], k, KeyCols) THEN t.rows[j][c] ELSE NaN])

\* the clean panel has the rows of the base panel, one for one, and column
\* col of each row is the mean of the cities that source name has for the key
\* of that row in its column c
JoinedReduced(name, c, col) ==
    /\ \A i \in 1..Len(fs[CleanPanelFile].rows) :
          Cardinality(RowsWithKey(fs[CleanPanelFile], fs[CleanPanelFile].rows[i]))
            = Cardinality(RowsWithKey(run.before[WorldBankFile], fs[CleanPanelFile].rows[i]))
    /\ HasCol(fs[CleanPanelFile], col)
    /\ \A i \in 1..Len(fs[CleanPanelFile].rows) :
          fs[CleanPanelFile].rows[i][col]
            = CityMean(run.before[name], fs[CleanPanelFile].rows[i], c)

\* the merger joined the city-level UITP table, and only that city-level table
UitpJoined ==
    /\ MergerRan
    /\ Exists(run.before, UitpFile) /\ HasCol(run.before[UitpFile], "city")
    /\ ~HasCol(run.before[WorldBankFile], "modal_share_public")
    /\ Exists(run.before, TomTomFile) => Exists(run.before, CongestionFile)

\* the merger joined the raw, city-level TomTom table
TomTomJoined ==
    /\ MergerRan
    /\ CongestionSource(run.before) = TomTomFile
    /\ ~HasCol(run.before[WorldBankFile], "congestion_index")

\* C23: a city-level source reaches the panel reduced to one row per
\* (country, year) with the mean of the cities of that pair: the merge
\* neither repeats a row of the base panel nor joins the value of a single
\* city, for the UITP table and for the raw TomTom table
CityLevelReduced ==
    /\ UitpJoined => JoinedReduced(UitpFile, "modal_share_public", "modal_share_public")
    /\ TomTomJoined => JoinedReduced(TomTomFile, "congestion_level_pct", "congestion_index")

\* the same for the UITP table alone, which the merger reduces itself
UitpReduced ==
    UitpJoined => JoinedReduced(UitpFile, "modal_share_public", "modal_share_public")

\* a merge of the UITP table in which a key has two cities
UitpReducedWitness ==
    /\ UitpJoined
    /\ \E i \in 1..Len(fs[CleanPanelFile].rows) :
          Cardinality(RowsWithKey(run.before[UitpFile], fs[CleanPanelFile].rows[i])) > 1

(***************************************************************************)
(* train_test_split.py: the Time-Based Splitter                            *)
(***************************************************************************)
WorldBankTrainFile == "worldbank_train.csv"

WorldBankTestFile == "worldbank_test.csv"

CleanTrainFile == "clean_panel_train.csv"

CleanTestFile == "clean_panel_test.csv"

SplitReportFile == "train_test_split_report.txt"

SplitPlotFile == "train_test_split.png"

split_year == 2020

\* the fault of letting the split year into the training rows
TrainRowsInclusive(df) ==
    Table(df.cols,
          Filter(df.rows, {i \in 1..Len(df.rows) :
                             df.rows[i]["year"] # NaN /\ df.rows[i]["year"] <= split_year}))

\* df[df['year'] < split_year]
TrainRows(df) ==
    Table(df.cols,
          Filter(df.rows, {i \in 1..Len(df.rows) : Lt(df.rows[i]["year"], split_year)}))

\* the fault of leaving the rows of the split year out of the test rows
TestRowsAfter(df) ==
    Table(df.cols,
          Filter(df.rows, {i \in 1..Len(df.rows) : Gt(df.rows[i]["year"], split_year)}))

\* df[df['year'] >= split_year]
TestRows(df) ==
    Table(df.cols,
          Filter(df.rows, {i \in 1..Len(df.rows) : Ge(df.rows[i]["year"], split_year)}))

\* Series.max() and Series.min(): missing when there is no value
SeriesMax(s) ==
    LET v == Range(NonNull(s)) IN
    IF v = {} THEN NaN ELSE CHOOSE x \in v : \A y \in v : y <= x

SeriesMin(s) ==
    LET v == Range(NonNull(s)) IN
    IF v = {} THEN NaN ELSE CHOOSE x \in v : \A y \in v : x <= y

\* the fault of checking the years only when both parts have rows
NoLeakageWhenRows(train, test) ==
    \/ Len(train.rows) = 0
    \/ Len(test.rows) = 0
    \/ Lt(SeriesMax(Column(train, "year")), SeriesMin(Column(test, "year")))

\* train['year'].max() < test['year'].min()
NoLeakage(train, test) ==
    Lt(SeriesMax(Column(train, "year")), SeriesMin(Column(test, "year")))

Countries(t) == {t.rows[i]["country"] : i \in 1..Len(t.rows)} \ {None}

\* the whole script.  split_year is assigned only where the base panel is
\* read, and the later parts use it: without the base panel the script fails
\* before it writes.  The shares it prints divide by the length of the panel.
TrainTestSplit(f) ==
    IF ~Exists(f, WorldBankFile) THEN Result("error", f, {})
    ELSE LET df == f[WorldBankFile]
             train == TrainRows(df)
             test == TestRows(df)
         IN IF Len(df.rows) = 0 THEN Result("error", f, {})
            ELSE IF ~NoLeakage(train, test) THEN Result("error", f, {})
            ELSE LET plot == Table(<<"train", "test">>,
                                   <<[train |-> Len(train.rows), test |-> Len(test.rows)]>>)
                     f1 == WriteFile(WriteFile(WriteFile(f, WorldBankTrainFile, train),
                                               WorldBankTestFile, test),
                                     SplitPlotFile, plot)
                     f2 == IF Exists(f, CleanPanelFile)
                           THEN WriteFile(WriteFile(f1, CleanTrainFile,
                                                    TrainRows(f[CleanPanelFile])),
                                          CleanTestFile, TestRows(f[CleanPanelFile]))
                           ELSE f1
                     report == Table(<<"split_year", "original", "train", "test", "common_countries">>,
                                     <<[split_year |-> split_year,
                                        original |-> Len(df.rows),
                                        train |-> Len(train.rows),
                                        test |-> Len(test.rows),
                                        common_countries |->
                                            Cardinality(Countries(train) \cap Countries(test))]>>)
                 IN Result("ok", WriteFile(f2, SplitReportFile, report),
                           {WorldBankTrainFile, WorldBankTestFile, SplitPlotFile, SplitReportFile}
                           \cup (IF Exists(f, CleanPanelFile)
                                 THEN {CleanTrainFile, CleanTestFile} ELSE {}))

(***************************************************************************)
(* Inputs of the splitter: base panels over any years around the split     *)
(* year, with or without a clean panel of an earlier merge                 *)
(***************************************************************************)
YearsBefore == 2

YearsAfter == 2

NumSplitCountries == 2

SplitWindow == (split_year - YearsBefore)..(split_year + YearsAfter - 1)

\* the members of a set of numbers in ascending order
Ascending(S) ==
    [i \in 1..Cardinality(S) |-> CHOOSE y \in S : Cardinality({z \in S : z < y}) = i - 1]

\* the base panel of the first nc countries over the years
YearPanel(nc, years) ==
    LET ys == Ascending(years)
        ny == Len(ys)
    IN Table(WorldBankCols,
             [i \in 1..(nc * ny) |->
                LET c == MergeCountries[((i - 1) \div ny) + 1]
                    y == ys[((i - 1) % ny) + 1]
                IN [country |-> c, year |-> y, gdp_per_capita |-> GdpOf[c] + 100 * (y - FirstYear),
                    population |-> PopulationOf[c], urban_population_pct |-> UrbanOf[c]]])

\* the clean panel the merger makes of a base panel
CleanPanelOf(wb_df) ==
    MergePanel([name \in {WorldBankFile} |-> wb_df]).fs[CleanPanelFile]

SplitInputs == {WorldBankFile, CleanPanelFile}

\* the panel t, without the rows of the country late before the split year
EnteringLate(t, late) ==
    Table(t.cols,
          Filter(t.rows, {i \in 1..Len(t.rows) :
                            ~(t.rows[i]["country"] = late /\ t.rows[i]["year"] < split_year)}))

InitSplit ==
    /\ \E nc \in 1..NumSplitCountries, wb_years \in SUBSET SplitWindow,
          clean_years \in SUBSET SplitWindow, base \in BOOLEAN,
          late \in {"none", MergeCountries[NumSplitCountries]} :
         LET panel == [name \in (IF base THEN {WorldBankFile} ELSE {}) |->
                          EnteringLate(YearPanel(nc, wb_years), late)]
         IN fs = IF clean_years = {} THEN panel
                 ELSE WriteFile(panel, CleanPanelFile,
                                CleanPanelOf(EnteringLate(YearPanel(nc, clean_years), late)))
    /\ run = NoRun
    /\ orch = OrchIdle

SplitScript == "train_test_split.py"

RunTrainTestSplit ==
    \E r \in {TrainTestSplit(fs)} :
    /\ fs' = r.fs
    /\ run' = Ran(SplitScript, Inputs(fs, SplitInputs), r, <<>>)
    /\ UNCHANGED orch

NextSplit == RunTrainTestSplit

SpecSplit == InitSplit /\ [][NextSplit]_vars

(***************************************************************************)
(* Properties of the Time-Based Splitter                                   *)
(***************************************************************************)
SplitterRan == run.script = SplitScript

SplitFiles == {WorldBankTrainFile, WorldBankTestFile, CleanTrainFile, CleanTestFile}

\* every row of train is before the split year, every row of test is not,
\* and every train year is before every test year
Separated(train, test) ==
    /\ \A i \in 1..Len(train.rows) : train.rows[i]["year"] < split_year
    /\ \A j \in 1..Len(test.rows) : test.rows[j]["year"] >= split_year
    /\ \A i \in 1..Len(train.rows), j \in 1..Len(test.rows) :
         train.rows[i]["year"] < test.rows[j]["year"]

\* C4: in the World Bank split and in the clean-panel split that a run of
\* the splitter writes, the train rows have year < split_year, the test rows
\* have year >= split_year, and the train years are before the test years
NoLeakageInSplits ==
    SplitterRan =>
        /\ WorldBankTrainFile \in run.written =>
             Separated(fs[WorldBankTrainFile], fs[WorldBankTestFile])
        /\ CleanTrainFile \in run.written =>
             Separated(fs[CleanTrainFile], fs[CleanTestFile])

\* a run that wrote both splits, every part with rows, the clean panel with
\* a row of the split year
NoLeakageInSplitsWitness ==
    /\ SplitterRan
    /\ SplitFiles \subseteq run.written
    /\ \A name \in SplitFiles : Len(fs[name].rows) > 0
    /\ \E j \in 1..Len(fs[CleanTestFile].rows) : fs[CleanTestFile].rows[j]["year"] = split_year

\* the check max(train.year) < min(test.year) of the run that ended last was
\* reached and failed: the base panel had rows, and no largest train year
\* below a smallest test year
LeakageCheckFailed ==
    /\ SplitterRan
    /\ Exists(run.before, WorldBankFile)
    /\ LET df == run.before[WorldBankFile]
           before == {df.rows[i]["year"] : i \in 1..Len(df.rows)} \cap (0..(split_year - 1))
           after == {df.rows[i]["year"] : i \in 1..Len(df.rows)} \ (0..(split_year - 1))
       IN /\ Len(df.rows) > 0
          /\ ~(/\ before # {}
               /\ after # {}
               /\ \A x \in before, y \in after : x < y)

\* C5: when the check max(train.year) < min(test.year) fails, the run ends
\* with an error and writes none of the split files
LeakageAborts ==
    LeakageCheckFailed =>
        /\ run.status = "error"
        /\ run.written \cap SplitFiles = {}

\* a failed check on a panel with test rows only, next to a clean panel
\* that the run would have split
LeakageAbortsWitness ==
    /\ LeakageCheckFailed
    /\ Exists(run.before, CleanPanelFile)
    /\ Len(run.before[CleanPanelFile].rows) > 0
    /\ \A name \in SplitFiles : ~Exists(fs, name)

\* train and test are the rows of panel before the split year and the rows
\* from the split year on, as they are in the panel and in its order, and
\* every row of the panel is in one of the two
Partitioned(panel, train, test) ==
    /\ train.cols = panel.cols /\ test.cols = panel.cols
    /\ train.rows = SelectSeq(panel.rows, LAMBDA r : r["year"] < split_year)
    /\ test.rows = SelectSeq(panel.rows, LAMBDA r : r["year"] >= split_year)
    /\ Len(train.rows) + Len(test.rows) = Len(panel.rows)

\* C19: the train and test files that a run of the splitter writes are a
\* partition of the panel it read at the split year, for the base panel and
\* for the clean panel: train has exactly the rows with year < split_year,
\* test exactly the rows with year >= split_year, the rows unchanged
SplitIsPartition ==
    SplitterRan =>
        /\ WorldBankTrainFile \in run.written =>
             Partitioned(run.before[WorldBankFile], fs[WorldBankTrainFile],
                         fs[WorldBankTestFile])
        /\ CleanTrainFile \in run.written =>
             Partitioned(run.before[CleanPanelFile], fs[CleanTrainFile], fs[CleanTestFile])

\* a run that split a base panel and a clean panel over different years,
\* both with rows of the year before the split year and of the split year
SplitIsPartitionWitness ==
    /\ SplitterRan
    /\ SplitFiles \subseteq run.written
    /\ Keys(run.before[WorldBankFile]) # Keys(run.before[CleanPanelFile])
    /\ \A name \in {WorldBankFile, CleanPanelFile} :
         /\ \E i \in 1..Len(run.before[name].rows) :
               run.before[name].rows[i]["year"] = split_year - 1
         /\ \E i \in 1..Len(run.before[name].rows) :
               run.before[name].rows[i]["year"] = split_year

\* some country has rows in the test part of the base panel that the
\* splitter read and none in its train part
TestOnlyCountry ==
    /\ SplitterRan
    /\ Exists(run.before, WorldBankFile)
    /\ \E i \in 1..Len(run.before[WorldBankFile].rows) :
         /\ run.before[WorldBankFile].rows[i]["year"] >= split_year
         /\ \A j \in 1..Len(run.before[WorldBankFile].rows) :
               run.before[WorldBankFile].rows[j]["country"]
                  = run.before[WorldBankFile].rows[i]["country"]
               => run.before[WorldBankFile].rows[j]["year"] >= split_year

\* C20: when some country is in the test part and not in the train part,
\* whatever the train part holds, the splitter ends successfully and has
\* written the train and test files
AsymmetricCoverageNotFatal ==
    TestOnlyCountry =>
        /\ run.status = "ok"
        /\ {WorldBankTrainFile, WorldBankTestFile} \subseteq run.written

\* the same when the train part has a row
AsymmetricCoverageNotFatalWithTrainRows ==
    (/\ TestOnlyCountry
     /\ \E i \in 1..Len(run.before[WorldBankFile].rows) :
           run.before[WorldBankFile].rows[i]["year"] < split_year)
    => /\ run.status = "ok"
       /\ {WorldBankTrainFile, WorldBankTestFile} \subseteq run.written

\* a run on a panel with a country in both parts and a country in test only
AsymmetricCoverageSeen ==
    /\ TestOnlyCountry
    /\ \E i \in 1..Len(run.before[WorldBankFile].rows) :
          run.before[WorldBankFile].rows[i]["year"] < split_year

\* some row of the train part of panel t has a year that is not before the
\* year of some row of its test part
Leaks(t) ==
    \E i, j \in 1..Len(t.rows) :
        /\ t.rows[i]["year"] < split_year /\ t.rows[j]["year"] >= split_year
        /\ t.rows[i]["year"] >= t.rows[j]["year"]

\* C26: a run of the splitter on a base panel with rows, in which no train
\* row has a year greater than or equal to the year of a test row, ends
\* successfully and has written the train and test files, also when all rows
\* lie on one side of the split year
FailsOnlyOnLeakage ==
    (/\ SplitterRan
     /\ Exists(run.before, WorldBankFile)
     /\ Len(run.before[WorldBankFile].rows) > 0
     /\ ~Leaks(run.before[WorldBankFile]))
    => /\ run.status = "ok"
       /\ {WorldBankTrainFile, WorldBankTestFile} \subseteq run.written

\* the same for the panels with rows on both sides of the split year
CompletesWithBothSides ==
    (/\ SplitterRan
     /\ Exists(run.before, WorldBankFile)
     /\ \E i, j \in 1..Len(run.before[WorldBankFile].rows) :
           /\ run.before[WorldBankFile].rows[i]["year"] < split_year
           /\ run.before[WorldBankFile].rows[j]["year"] >= split_year)
    => /\ run.status = "ok"
       /\ {WorldBankTrainFile, WorldBankTestFile} \subseteq run.written

(***************************************************************************)
(* outlier_winsorization.py: the Outlier Winsorizer                        *)
(***************************************************************************)
WinsorFiles == <<WorldBankFile, TomTomFile, UitpFile, PsaFile, OpenaqFile>>

WinsorReportFile == "winsorization_report.csv"

WinsorReportText == "winsorization_report.txt"

exclude_cols == {"year", "time_idx", "index", "id"}

\* the numeric columns of a table but the excluded ones
numeric_cols(df) ==
    Filter(df.cols, {i \in 1..Len(df.cols) : df.cols[i] \notin StringCols \cup exclude_cols})

\* the values of a column that are not missing, in ascending order
SortedValues(s) ==
    LET values(sorted) == [i \in 1..Len(sorted) |-> sorted[i].x]
        sorted(v) == values(SortRows([i \in 1..Len(v) |-> [x |-> v[i]]], <<"x">>))
    IN sorted(NonNull(s))

\* Series.quantile(k / 100): the value at position k (n - 1) / 100 of the
\* sorted values, interpolated linearly between its two neighbours
Quantile(s, k) ==
    LET between(low, high, r) ==
            low + r * ((high - low) \div 100) + (r * ((high - low) % 100)) \div 100
        at(v, lo, r) == IF r = 0 THEN v[lo] ELSE between(v[lo], v[lo + 1], r)
        of(v) == IF Len(v) = 0 THEN NaN
                 ELSE at(v, ((k * (Len(v) - 1)) \div 100) + 1, (k * (Len(v) - 1)) % 100)
    IN of(SortedValues(s))

\* Series.std() > 0: two values at least, and not all the same
StdPositive(s) == Cardinality(Range(NonNull(s))) > 1

\* the column after the script's treatment, and how many values it replaced
Winsorized(s) ==
    LET clipped(percentile_99, percentile_01, outliers) ==
            IF StdPositive(s) /\ outliers # {}
            THEN [values |-> [i \in 1..Len(s) |->
                                IF Gt(s[i], percentile_99) THEN percentile_99
                                ELSE IF Lt(s[i], percentile_01) THEN percentile_01
                                ELSE s[i]],
                  count |-> Cardinality(outliers)]
            ELSE [values |-> s, count |-> 0]
        bounded(percentile_99, percentile_01) ==
            clipped(percentile_99, percentile_01,
                    {i \in 1..Len(s) : Gt(s[i], percentile_99) \/ Lt(s[i], percentile_01)})
    IN bounded(Quantile(s, 99), Quantile(s, 1))

WinsorizedTable(df) ==
    LET saved(cols, w) ==
            Table(df.cols,
                  [i \in 1..Len(df.rows) |->
                     [c \in Range(df.cols) |->
                        IF c \in cols THEN w[c].values[i] ELSE df.rows[i][c]]])
        treated(cols) == saved(cols, [c \in cols |-> Winsorized(Column(df, c))])
    IN treated(Range(numeric_cols(df)))

winsorization_summary(file, df) ==
    LET summary(cols, counts) ==
            [file |-> file,
             total_columns |-> Len(cols),
             columns_winsorized |-> Cardinality({k \in 1..Len(cols) : counts[k] > 0}),
             total_values_winsorized |-> SeqSum(counts)]
        counted(cols) ==
            summary(cols, [k \in 1..Len(cols) |-> Winsorized(Column(df, cols[k])).count])
    IN counted(numeric_cols(df))

\* the whole script: every file of the list that exists is replaced by its
\* winsorized table; the text report reads the columns of the report table,
\* which has none when no file was there
Winsorization(f) ==
    LET saved(present) ==
            [name \in DOMAIN f |->
               IF name \in Range(present) THEN WinsorizedTable(f[name]) ELSE f[name]]
        report_df(present) ==
            IF present = <<>> THEN Table(<<>>, <<>>)
            ELSE Table(<<"file", "total_columns", "columns_winsorized",
                         "total_values_winsorized">>,
                       [i \in 1..Len(present) |->
                          winsorization_summary(present[i], f[present[i]])])
        text(present, report) ==
            Table(<<"files_processed", "total_values_winsorized">>,
                  IF present = <<>> THEN <<>>
                  ELSE <<[files_processed |-> Len(present),
                          total_values_winsorized |->
                             SeqSum([i \in 1..Len(present) |->
                                       report.rows[i]["total_values_winsorized"]])]>>)
        reported(present, report) ==
            Result(IF present = <<>> THEN "error" ELSE "ok",
                   WriteFile(WriteFile(saved(present), WinsorReportFile, report),
                             WinsorReportText, text(present, report)),
                   Range(present) \cup {WinsorReportFile, WinsorReportText})
        processed(present) == reported(present, report_df(present))
    IN processed(Filter(WinsorFiles, {i \in 1..Len(WinsorFiles) : Exists(f, WinsorFiles[i])}))

(***************************************************************************)
(* Inputs of the winsorizer: a base panel with any values of a small set   *)
(* in its numeric column, and the other files of its list                  *)
(***************************************************************************)
MaxRows == 3

\* values in units of 1e-4, so that two passes are computed exactly
WinsorValues == {10000, 20000, 1000000, NaN}

ValuePanel(values) ==
    Table(<<"country", "year", "gdp_per_capita">>,
          [i \in 1..Len(values) |->
             [country |-> "Philippines", year |-> FirstYear + i - 1,
              gdp_per_capita |-> values[i]]])

\* the OpenAQ table in the same units
Pm25Table ==
    Table(<<"country", "year", "pm25">>,
          [y \in 1..3 |->
             [country |-> "Philippines", year |-> FirstYear + y - 1, pm25 |-> 10000 * (220 - 30 * y * y)]])

WinsorInputs == Range(WinsorFiles)

InitWinsor ==
    /\ \E n \in 0..MaxRows, openaq \in BOOLEAN, uitp \in BOOLEAN :
         \E values \in [1..n -> WinsorValues] :
            LET base == IF n = 0 THEN NoFiles
                        ELSE [name \in {WorldBankFile} |-> ValuePanel(values)]
                with_openaq == IF openaq THEN WriteFile(base, OpenaqFile, Pm25Table) ELSE base
            IN fs = IF uitp THEN WriteFile(with_openaq, UitpFile, UitpTable) ELSE with_openaq
    /\ run = NoRun
    /\ orch = OrchIdle

WinsorScript == "outlier_winsorization.py"

\* two passes in a row are followed; the arithmetic of a third is not exact
RunWinsorization ==
    /\ run.script = WinsorScript => run.pass < MaxPasses
    /\ \E r \in {Winsorization(fs)} :
       /\ fs' = r.fs
       /\ run' = Ran(WinsorScript, Inputs(fs, WinsorInputs), r, <<>>)
    /\ UNCHANGED orch

NextWinsor == RunWinsorization

SpecWinsor == InitWinsor /\ [][NextWinsor]_vars

(***************************************************************************)
(* Properties of the Outlier Winsorizer                                    *)
(***************************************************************************)
\* C6: a second pass of the winsorizer in a row leaves every table as the
\* first pass left it
WinsorizationIdempotent ==
    (run.script = WinsorScript /\ run.pass = 2) =>
        \A name \in DOMAIN run.before : fs[name] = run.before[name]

(***************************************************************************)
(* panel_balance.py: the Panel Balancer                                    *)
(***************************************************************************)
BalanceReportFile == "panel_balance_report.csv"

BalanceReportText == "panel_balance_report.txt"

BalanceChartFile == "panel_balance_chart.png"

BalanceDistributionFile == "panel_balance_distribution.png"

min_years == 10

\* df.groupby('country')['year'].count(): for each country the number of
\* its rows that have a year
country_counts(df) ==
    [c \in Countries(df) |->
       Cardinality({i \in 1..Len(df.rows) :
                      df.rows[i]["country"] = c /\ ~IsNull("year", df.rows[i]["year"])})]

\* a threshold that a country has to exceed
valid_countries_above(df) ==
    {c \in Countries(df) : country_counts(df)[c] > min_years}

valid_countries(df) ==
    {c \in Countries(df) : country_counts(df)[c] >= min_years}

filtered_countries(df) ==
    {c \in Countries(df) : country_counts(df)[c] < min_years}

df_filtered(df) ==
    Table(df.cols,
          Filter(df.rows, {i \in 1..Len(df.rows) : df.rows[i]["country"] \in valid_countries(df)}))

\* the coverage report: the countries in the order of the grouping, sorted
\* by their number of years, the largest first
balance_report(df) ==
    LET counts == country_counts(df)
        names == [i \in 1..Cardinality(Countries(df)) |->
                    [country |-> CHOOSE c \in Countries(df) :
                       Cardinality({d \in Countries(df) : StrRank(d) < StrRank(c)}) = i - 1]]
        lines == [i \in 1..Len(names) |->
                    [country |-> names[i].country,
                     years_of_data |-> counts[names[i].country],
                     kept |-> IF counts[names[i].country] >= min_years THEN "True" ELSE "False",
                     descending |-> 0 - counts[names[i].country]]]
    IN Select(Table(<<"country", "years_of_data", "kept", "descending">>,
                    SortRows(lines, <<"descending">>)),
              <<"country", "years_of_data", "kept">>,
              <<"country", "years_of_data", "kept">>)

\* the whole script: without the base panel it only says so
PanelBalance(f) ==
    IF ~Exists(f, WorldBankFile) THEN Result("ok", f, {})
    ELSE LET df == f[WorldBankFile]
             chart == Table(<<"country", "years_of_data">>,
                            Select(balance_report(df), <<"country", "years_of_data">>,
                                   <<"country", "years_of_data">>).rows)
             text == Table(<<"rows", "countries", "filtered_rows", "filtered_countries",
                             "countries_removed">>,
                           <<[rows |-> Len(df.rows),
                              countries |-> Nunique(df, "country"),
                              filtered_rows |-> Len(df_filtered(df).rows),
                              filtered_countries |-> Cardinality(valid_countries(df)),
                              countries_removed |-> Cardinality(filtered_countries(df))]>>)
             saved == WriteFile(f, WorldBankFile, df_filtered(df))
             reported == WriteFile(saved, BalanceReportFile, balance_report(df))
             charted == WriteFile(WriteFile(reported, BalanceChartFile, chart),
                                  BalanceDistributionFile, chart)
         IN Result("ok", WriteFile(charted, BalanceReportText, text),
                   {WorldBankFile, BalanceReportFile, BalanceChartFile,
                    BalanceDistributionFile, BalanceReportText})

(***************************************************************************)
(* Inputs of the balancer: base panels whose countries have one year, or   *)
(* about as many years as the threshold asks for                           *)
(***************************************************************************)
NumBalanceCountries == 3

YearsAround == 1

YearCounts == {1} \cup ((min_years - YearsAround)..(min_years + YearsAround))

\* the base panel with years[k] years of the k-th country, the rows of a
\* country together or the rows of a year together
CountedPanel(years, by_country) ==
    LET nc == Len(years)
        longest == SeriesMax([k \in 1..nc |-> years[k]])
        cell(k, y) == [country |-> PanelCountries[k], year |-> 2000 + y,
                       gdp_per_capita |-> GdpOf[PanelCountries[k]] + 100 * y,
                       population |-> PopulationOf[PanelCountries[k]],
                       urban_population_pct |-> UrbanOf[PanelCountries[k]]]
        grid == IF nc = 0 THEN <<>>
                ELSE [i \in 1..(nc * longest) |->
                        IF by_country
                        THEN cell(((i - 1) \div longest) + 1, (i - 1) % longest)
                        ELSE cell(((i - 1) % nc) + 1, (i - 1) \div nc)]
    IN Table(WorldBankCols,
             Filter(grid, {i \in 1..Len(grid) :
                             \E k \in 1..nc : /\ grid[i].country = PanelCountries[k]
                                              /\ grid[i].year - 2000 < years[k]}))

BalanceInputs == {WorldBankFile}

InitBalance ==
    /\ \E nc \in 0..NumBalanceCountries, by_country \in BOOLEAN, base \in BOOLEAN :
         \E years \in [1..nc -> YearCounts] :
            fs = IF base THEN [name \in {WorldBankFile} |-> CountedPanel(years, by_country)]
                 ELSE NoFiles
    /\ run = NoRun
    /\ orch = OrchIdle

BalanceScript == "panel_balance.py"

RunPanelBalance ==
    /\ run.script = BalanceScript => run.pass < MaxPasses
    /\ \E r \in {PanelBalance(fs)} :
       /\ fs' = r.fs
       /\ run' = Ran(BalanceScript, Inputs(fs, BalanceInputs), r, <<>>)
    /\ UNCHANGED orch

NextBalance == RunPanelBalance

SpecBalance == InitBalance /\ [][NextBalance]_vars

(***************************************************************************)
(* Properties of the Panel Balancer                                        *)
(***************************************************************************)
BalancerRan ==
    /\ run.script = BalanceScript
    /\ run.status = "ok"
    /\ WorldBankFile \in DOMAIN run.before

\* the rows of a country, in the order of the table
RowsOf(t, c) == Filter(t.rows, {i \in 1..Len(t.rows) : t.rows[i]["country"] = c})

Observations(t, c) == Len(RowsOf(t, c))

\* C7: after the balancer ran, the base panel holds, unchanged and in their
\* order, exactly the rows of the countries that had at least 10 rows in the
\* panel it read: such a country keeps every row, a country with fewer than
\* 10 keeps none
BalanceThreshold ==
    BalancerRan =>
        LET before == run.before[WorldBankFile]
            after == fs[WorldBankFile]
        IN /\ after.cols = before.cols
           /\ \A c \in Countries(before) :
                 /\ Observations(before, c) >= 10 => RowsOf(after, c) = RowsOf(before, c)
                 /\ Observations(before, c) < 10 => RowsOf(after, c) = <<>>
                 /\ RowsOf(after, c) = RowsOf(before, c) <=> Observations(before, c) >= 10
           /\ after.rows =
                 Filter(before.rows,
                        {i \in 1..Len(before.rows) :
                           Observations(before, before.rows[i]["country"]) >= 10})

\* a panel with a country of exactly 10 rows, kept, among the rows of a
\* country of 9 rows, removed
BalanceThresholdWitness ==
    /\ BalancerRan
    /\ run.pass = 1
    /\ LET before == run.before[WorldBankFile]
           after == fs[WorldBankFile]
       IN /\ \E c \in Countries(before) :
                Observations(before, c) = 10 /\ Observations(after, c) = 10
          /\ \E c \in Countries(before) :
                Observations(before, c) = 9 /\ Observations(after, c) = 0
          /\ before.rows[1]["country"] # before.rows[2]["country"]

(***************************************************************************)
(* handle_missing_values.py: the Missing-Value Handler                     *)
(***************************************************************************)
MissingValueFiles == <<WorldBankFile, TomTomFile, UitpFile, PsaFile>>

MissingReportFile == "missing_values_report.csv"

MissingReportText == "missing_values_report.txt"

time_invariant_vars == {"country"}

smooth_trend_vars == {"gdp_per_capita", "gdp_current_usd", "population", "gdp_growth"}

sparse_vars == {"modal_share_public", "transit_investment_gdp", "rail_km_built", "fleet_size"}

\* any(term in col.lower() for term in ['gdp', 'population', 'growth']), over
\* the column names of the tables of the model
SmoothTerms(col) ==
    col \in {"gdp_per_capita", "gdp_current_usd", "gdp_growth", "log_gdp_per_capita",
             "transit_investment_gdp", "population", "log_population",
             "urban_population_pct", "population_density", "metro_manila_population"}

\* any(term in col.lower() for term in ['modal', 'transit', 'rail', 'fleet'])
SparseTerms(col) ==
    col \in {"modal_share_public", "modal_share_private", "modal_share_walk",
             "modal_share_bike", "transit_investment_gdp", "transit_invest_lag1",
             "rail_km_built", "rail_lines_km", "total_rail_length_km", "fleet_size"}

\* the rows of the group of row i in df.groupby('country')
CountryGroup(df, i) ==
    {j \in 1..Len(df.rows) : df.rows[j]["country"] = df.rows[i]["country"]}

\* cell i of groupby('country')[c].transform(lambda x: x.interpolate(
\* method='linear', limit_direction='both')): a missing cell between two
\* values lies on the line through them, the rows equally spaced; a missing
\* cell before the first value or after the last takes that value
Interpolated(df, c, i) ==
    LET at(j) == df.rows[j][c]
        line(a, b) == at(a) + ((at(b) - at(a)) * (i - a)) \div (b - a)
        nearest(before, after) ==
            IF before = {} /\ after = {} THEN NaN
            ELSE IF before = {} THEN at(CHOOSE j \in after : \A k \in after : j <= k)
            ELSE IF after = {} THEN at(CHOOSE j \in before : \A k \in before : k <= j)
            ELSE line(CHOOSE j \in before : \A k \in before : k <= j,
                      CHOOSE j \in after : \A k \in after : j <= k)
        filled(valid) == nearest({j \in valid : j < i}, {j \in valid : j > i})
    IN IF df.rows[i][c] # NaN THEN df.rows[i][c]
       ELSE filled({j \in CountryGroup(df, i) : df.rows[j][c] # NaN})

\* cell i of groupby('country')[c].transform(lambda x:
\* x.fillna(method='ffill').fillna(method='bfill')): a missing cell takes the
\* last value before it in its country, or else the first value after it
ForwardBackwardFilled(df, c, i) ==
    LET at(j) == df.rows[j][c]
        nearest(before, after) ==
            IF before # {} THEN at(CHOOSE j \in before : \A k \in before : k <= j)
            ELSE IF after # {} THEN at(CHOOSE j \in after : \A k \in after : j <= k)
            ELSE NullOf(c)
        filled(valid) == nearest({j \in valid : j < i}, {j \in valid : j > i})
    IN IF ~IsNull(c, df.rows[i][c]) THEN df.rows[i][c]
       ELSE filled({j \in CountryGroup(df, i) : ~IsNull(c, df.rows[j][c])})

\* the loop over the columns of a table with country and year, sorted by them
ImputedByCountry(df) ==
    Table(df.cols,
          [i \in 1..Len(df.rows) |->
             [c \in Range(df.cols) |->
                IF c \in time_invariant_vars THEN df.rows[i][c]
                ELSE IF c \in smooth_trend_vars \/ SmoothTerms(c) THEN Interpolated(df, c, i)
                ELSE IF c \in sparse_vars \/ SparseTerms(c) THEN ForwardBackwardFilled(df, c, i)
                ELSE IF c \notin StringCols THEN Interpolated(df, c, i)
                ELSE df.rows[i][c]]])

\* df.fillna(method='ffill') of a table without country or year: a missing
\* cell of any column takes the last value above it; the interpolation that
\* follows finds no missing cell below a value
ForwardFilled(df) ==
    Table(df.cols,
          [i \in 1..Len(df.rows) |->
             [c \in Range(df.cols) |->
                LET last(above) ==
                        IF IsNull(c, df.rows[i][c]) /\ above # {}
                        THEN df.rows[CHOOSE j \in above : \A k \in above : k <= j][c]
                        ELSE df.rows[i][c]
                IN last({j \in 1..(i - 1) : ~IsNull(c, df.rows[j][c])})]])

\* the missing cells that remain in a numeric column filled with the mean of
\* the column over the whole table
MeanFilled(df) ==
    Table(df.cols,
          [i \in 1..Len(df.rows) |->
             [c \in Range(df.cols) |->
                IF c \notin StringCols /\ df.rows[i][c] = NaN
                THEN Mean(Column(df, c)) ELSE df.rows[i][c]]])

\* one file of the list as it is saved
MissingHandled(df) ==
    IF HasCol(df, "country") /\ HasCol(df, "year")
    THEN MeanFilled(ImputedByCountry(SortValues(df, KeyCols)))
    ELSE MeanFilled(ForwardFilled(df))

\* df.isnull().sum().sum()
MissingCount(df) ==
    Cardinality({<<i, c>> \in (1..Len(df.rows)) \X Range(df.cols) : IsNull(c, df.rows[i][c])})

\* the share of the cells of the table that are missing, in hundredths of a
\* percent; numpy divides 0 by 0 to nan
MissingPct(df, missing) ==
    IF Len(df.rows) * Len(df.cols) = 0 THEN NaN
    ELSE (missing * 10000) \div (Len(df.rows) * Len(df.cols))

MissingReportCols ==
    <<"file", "missing_before", "missing_pct_before", "missing_after", "missing_pct_after",
      "reduction">>

missing_report(file, df, handled) ==
    LET entry(before, after) ==
            [file |-> file, missing_before |-> before,
             missing_pct_before |-> MissingPct(df, before),
             missing_after |-> after, missing_pct_after |-> MissingPct(handled, after),
             reduction |-> before - after]
    IN entry(MissingCount(df), MissingCount(handled))

\* the whole script: every file of the list that exists is handled and saved
\* in place; the text report sums the reductions of the report table, which
\* has no such column when no file of the list exists
HandleMissingValues(f) ==
    LET found == SelectSeq(MissingValueFiles, LAMBDA name : Exists(f, name))
        saved(handled) ==
            [name \in DOMAIN f \cup {MissingReportFile, MissingReportText} |->
                IF name \in Range(found) THEN handled[name]
                ELSE IF name = MissingReportFile
                THEN Table(IF found = <<>> THEN <<>> ELSE MissingReportCols,
                           [k \in 1..Len(found) |->
                              missing_report(found[k], f[found[k]], handled[found[k]])])
                ELSE IF name = MissingReportText
                THEN Table(<<"files">>, <<[files |-> Len(found)]>>)
                ELSE f[name]]
    IN Result(IF found = <<>> THEN "error" ELSE "ok",
              saved([name \in Range(found) |-> MissingHandled(f[name])]),
              Range(found) \cup {MissingReportFile, MissingReportText})

(***************************************************************************)
(* Inputs of the missing-value handler: a base panel and a modal share     *)
(* table with missing cells anywhere in one measurement column, and        *)
(* possibly a row without a year                                           *)
(***************************************************************************)
NumFillCountries == 2

FillYears == 3

FillColumns == <<"gdp_per_capita", "transit_investment_gdp", "pm25_annual_mean">>

\* the value of the k-th measurement column for country n in year y: no
\* three years of a country lie on one line
FillValue(k, n, y) == 10000 * k + 1000 * n + 200 * y * y

\* a table of nc countries over FillYears years with the key columns and the
\* measurement columns cols, the column null_col missing in the rows of
\* null_rows and the year missing in row null_year (0: in none)
FillPanel(cols, nc, null_col, null_rows, null_year) ==
    Table(<<"country", "year">> \o cols,
          [i \in 1..(nc * FillYears) |->
             [c \in {"country", "year"} \cup Range(cols) |->
                IF c = "country" THEN MergeCountries[((i - 1) \div FillYears) + 1]
                ELSE IF c = "year"
                THEN (IF i = null_year THEN NaN ELSE FirstYear + ((i - 1) % FillYears))
                ELSE IF c = null_col /\ i \in null_rows THEN NaN
                ELSE FillValue(CHOOSE k \in 1..Len(cols) : cols[k] = c,
                               ((i - 1) \div FillYears) + 1, (i - 1) % FillYears)]])

InitMissing ==
    /\ \/ \E nc \in 1..NumFillCountries, uitp \in BOOLEAN, null_year \in {0, 2} :
            \E null_col \in Range(FillColumns) \cup (IF uitp THEN {"modal_share_public"} ELSE {}),
               null_rows \in SUBSET (1..(nc * FillYears)) :
               fs = [name \in {WorldBankFile} \cup (IF uitp THEN {UitpFile} ELSE {}) |->
                       IF name = WorldBankFile
                       THEN FillPanel(FillColumns, nc, null_col, null_rows, null_year)
                       ELSE FillPanel(<<"modal_share_public">>, nc, null_col, null_rows, 0)]
       \/ fs = NoFiles
    /\ run = NoRun
    /\ orch = OrchIdle

MissingValueScript == "handle_missing_values.py"

RunHandleMissingValues ==
    /\ run.script = MissingValueScript => run.pass < MaxPasses
    /\ \E r \in {HandleMissingValues(fs)} :
          /\ fs' = r.fs
          /\ run' = Ran(MissingValueScript, Inputs(fs, Range(MissingValueFiles)), r, <<>>)
          /\ UNCHANGED orch

NextMissing == RunHandleMissingValues

SpecMissing == InitMissing /\ [][NextMissing]_vars

(***************************************************************************)
(* Properties of the Missing-Value Handler                                 *)
(***************************************************************************)
\* the handler ran last, for the first time, and saved the file name
Handled(name) ==
    /\ run.script = MissingValueScript /\ run.pass = 1
    /\ name \in run.written /\ name \in DOMAIN run.before

\* the table of the file name as the handler read it, in the order in which
\* the handler keeps the rows
ReadSorted(name) == SortValues(run.before[name], KeyCols)

\* the country of row r has a value of column c in table t
Observed(t, r, c) ==
    \E j \in 1..Len(t.rows) : t.rows[j]["country"] = r["country"] /\ t.rows[j][c] # NaN

MeasurementCols(t) == Range(t.cols) \ ({"country", "year", "data_source"} \cup StringCols)

\* C15: after the handler has run on a table, a cell of a measurement column
\* is missing exactly when the country of its row had no value of that
\* column in the table as it was read
NullOnlyWithoutObservation ==
    \A name \in Range(MissingValueFiles) :
        Handled(name) =>
            \A i \in 1..Len(fs[name].rows) :
                \A c \in MeasurementCols(fs[name]) :
                    (fs[name].rows[i][c] = NaN)
                       <=> ~Observed(run.before[name], fs[name].rows[i], c)

\* the half of it that reads: a cell whose country had a value of the column
\* is not missing after the handler has run
ObservedColumnsFilled ==
    \A name \in Range(MissingValueFiles) :
        Handled(name) =>
            \A i \in 1..Len(fs[name].rows) :
                \A c \in MeasurementCols(fs[name]) :
                    Observed(run.before[name], fs[name].rows[i], c)
                       => fs[name].rows[i][c] # NaN

\* in table t, sorted as the handler sorts it, the cell of column c in row i
\* is missing and lies between two values of the same country: the rows of
\* the country with a value above it, if there is also one below it
ValuesAbove(t, c, i) ==
    IF /\ t.rows[i][c] = NaN
       /\ \E j \in (i + 1)..Len(t.rows) :
             t.rows[j]["country"] = t.rows[i]["country"] /\ t.rows[j][c] # NaN
    THEN {j \in 1..(i - 1) : t.rows[j]["country"] = t.rows[i]["country"] /\ t.rows[j][c] # NaN}
    ELSE {}

\* the missing cells of the columns cols that lie between two values of
\* their country have the earlier value after the handler has run
EarlierValueKept(cols) ==
    \A name \in Range(MissingValueFiles) :
        Handled(name) =>
            \A c \in cols \cap Range(fs[name].cols) :
                \A i \in 1..Len(fs[name].rows) :
                    \A j \in ValuesAbove(ReadSorted(name), c, i) :
                        (\A k \in ValuesAbove(ReadSorted(name), c, i) : k <= j)
                           => fs[name].rows[i][c] = ReadSorted(name).rows[j][c]

\* C16: a missing cell of modal_share_public, transit_investment_gdp,
\* rail_km_built or fleet_size between two values of the same country has the
\* earlier of the two values after the handler has run
SparseFilledForward ==
    EarlierValueKept({"modal_share_public", "transit_investment_gdp", "rail_km_built",
                      "fleet_size"})

\* the same for the columns of the class whose names have no term of the
\* smooth class
SparseFilledForwardUnlessSmooth ==
    EarlierValueKept({"modal_share_public", "rail_km_built", "fleet_size"})

\* C17: the handler leaves country, year and data_source of every row as
\* they were read
IdentifiersUnchanged ==
    \A name \in Range(MissingValueFiles) :
        Handled(name) =>
            \A c \in {"country", "year", "data_source"} \cap Range(fs[name].cols) :
                \A i \in 1..Len(fs[name].rows) :
                    fs[name].rows[i][c] = ReadSorted(name).rows[i][c]

\* the same of the rows that have a country and a year
IdentifiersUnchangedUnlessNull ==
    \A name \in Range(MissingValueFiles) :
        Handled(name) =>
            \A c \in {"country", "year", "data_source"} \cap Range(fs[name].cols) :
                \A i \in 1..Len(fs[name].rows) :
                    ~IsNull(c, ReadSorted(name).rows[i][c])
                       => fs[name].rows[i][c] = ReadSorted(name).rows[i][c]

(***************************************************************************)
(* data_standardization.py: the Standardizer.  It reads the files of the   *)
(* gatherers as they are on disk and saves them in place; in this part of  *)
(* the model the country and the year of a row are the text of the CSV     *)
(* cell, None for an empty cell                                            *)
(***************************************************************************)
StandardizerScript == "data_standardization.py"

StandardizationReportFile == "standardization_report.csv"

StandardizationReportText == "standardization_report.txt"

country_map ==
    ("Philippines" :> "Philippines") @@ ("PH" :> "Philippines")
    @@ ("Republic of the Philippines" :> "Philippines") @@ ("Philippine" :> "Philippines")
    @@ ("philippines" :> "Philippines")
    @@ ("United States" :> "United States") @@ ("USA" :> "United States")
    @@ ("U.S." :> "United States") @@ ("US" :> "United States")
    @@ ("United Kingdom" :> "United Kingdom") @@ ("UK" :> "United Kingdom")
    @@ ("U.K." :> "United Kingdom") @@ ("Great Britain" :> "United Kingdom")
    @@ ("Korea, Rep." :> "South Korea") @@ ("Republic of Korea" :> "South Korea")
    @@ ("Korea" :> "South Korea")
    @@ ("China" :> "China") @@ ("People's Republic of China" :> "China") @@ ("PRC" :> "China")
    @@ ("Russian Federation" :> "Russia") @@ ("Russia" :> "Russia")
    @@ ("Viet Nam" :> "Vietnam") @@ ("Vietnam" :> "Vietnam")

files_to_standardize ==
    <<WorldBankFile, TomTomFile, UitpFile, PsaFile, OverpassFile, OpenaqFile, LtfrbFile,
      JicaFile, AdbFile, "dpwh_data.csv", "sws_satisfaction.csv">>

\* the country texts with whitespace around them, and what is left of them
\* without it
Padded == (" PH " :> "PH") @@ (" Japan" :> "Japan")

\* str.strip() of a cell: an empty cell stays empty
Strip(s) == IF s \in DOMAIN Padded THEN Padded[s] ELSE s

\* the texts that read_csv reads as numbers
NumberTexts == {"608"}

\* read_csv makes column c a column of strings when the file has no row or
\* some cell of the column is a text that is not a number; a column of
\* numbers and empty cells only is a float column
StringColumn(df, c) ==
    \/ Len(df.rows) = 0
    \/ \E i \in 1..Len(df.rows) : df.rows[i][c] \notin NumberTexts \cup {None}

\* Series.replace(country_map) of one cell
Replaced(v) == IF v \in DOMAIN country_map THEN country_map[v] ELSE v

\* the numbers that the year texts stand for, in tenths of a year
YearOfText ==
    ("1999" :> 19990) @@ ("2000" :> 20000) @@ ("2024" :> 20240) @@ ("2024.0" :> 20240)
    @@ ("2025" :> 20250) @@ ("2010.5" :> 20105)

\* read_csv and pd.to_numeric(errors='coerce') of one cell, in tenths: NaN
\* for an empty cell and for a text that is not a number
to_numeric(s) == IF s \in DOMAIN YearOfText THEN YearOfText[s] ELSE NaN

\* to_csv of an Int64 cell: the digits of the year
IntText == (20000 :> "2000") @@ (20240 :> "2024")

year_min == 2000

year_max == 2024

\* the rows whose year lies in the range; NaN lies in no range
InYearRange(v) == Ge(v, 10 * year_min) /\ Le(v, 10 * year_max)

\* the country column stripped and mapped; .str raises AttributeError on a
\* column that is not a column of strings
StandardizedCountries(df) ==
    IF ~HasCol(df, "country") THEN [ok |-> TRUE, df |-> df]
    ELSE IF ~StringColumn(df, "country") THEN [ok |-> FALSE, df |-> df]
    ELSE [ok |-> TRUE,
          df |-> Table(df.cols,
                       [i \in 1..Len(df.rows) |->
                          [df.rows[i] EXCEPT !["country"] = Replaced(Strip(@))]])]

\* the year column made numeric, the rows outside the range dropped, and the
\* column cast to Int64, which raises TypeError on a year that is not whole
StandardizedYears(df) ==
    IF ~HasCol(df, "year") THEN [ok |-> TRUE, df |-> df, invalid |-> 0, filtered |-> 0]
    ELSE LET keep == {i \in 1..Len(df.rows) : InYearRange(to_numeric(df.rows[i]["year"]))}
             invalid == Cardinality({i \in 1..Len(df.rows) :
                                       to_numeric(df.rows[i]["year"]) = NaN})
             cast(kept) ==
                 IF \E j \in 1..Len(kept) : to_numeric(kept[j]["year"]) % 10 # 0
                 THEN [ok |-> FALSE, df |-> df, invalid |-> invalid,
                       filtered |-> Len(df.rows) - Len(kept)]
                 ELSE [ok |-> TRUE,
                       df |-> Table(df.cols,
                                    [j \in 1..Len(kept) |->
                                       [kept[j] EXCEPT !["year"] = IntText[to_numeric(@)]]]),
                       invalid |-> invalid, filtered |-> Len(df.rows) - Len(kept)]
         IN cast(Filter(df.rows, keep))

StandardizationReportCols ==
    <<"file", "original_rows", "rows_after", "countries_standardized", "years_filtered",
      "invalid_years_removed">>

\* one file of the list: the table that is saved and its line in the report
Standardized(name, df) ==
    LET years(c) ==
            LET reported(y) ==
                    [ok |-> c.ok /\ y.ok, df |-> y.df,
                     report |->
                        [file |-> name, original_rows |-> Len(df.rows),
                         rows_after |-> Len(y.df.rows),
                         countries_standardized |->
                            IF HasCol(df, "country") /\ c.ok
                            THEN Nunique(df, "country") - Nunique(c.df, "country") ELSE 0,
                         years_filtered |-> y.filtered,
                         invalid_years_removed |-> y.invalid]]
            IN reported(StandardizedYears(c.df))
    IN years(StandardizedCountries(df))

\* the loop over the files of the list from the k-th on, and the reports at
\* its end: an exception ends the script where it is raised, the files
\* before it saved; with no file of the list the report table has no
\* rows_after column for the text report to sum
RECURSIVE StandardizeFrom(_, _, _)
StandardizeFrom(k, f, report) ==
    LET reported == {report[i]["file"] : i \in 1..Len(report)}
        next(s) ==
            IF ~s.ok THEN Result("error", f, reported)
            ELSE StandardizeFrom(k + 1, WriteFile(f, files_to_standardize[k], s.df),
                                 Append(report, s.report))
    IN IF k > Len(files_to_standardize)
       THEN Result(IF report = <<>> THEN "error" ELSE "ok",
                   WriteFile(WriteFile(f, StandardizationReportFile,
                                       Table(IF report = <<>> THEN <<>>
                                             ELSE StandardizationReportCols, report)),
                             StandardizationReportText,
                             Table(<<"files">>, <<[files |-> Len(report)]>>)),
                   reported \cup {StandardizationReportFile, StandardizationReportText})
       ELSE IF ~Exists(f, files_to_standardize[k]) THEN StandardizeFrom(k + 1, f, report)
       ELSE next(Standardized(files_to_standardize[k], f[files_to_standardize[k]]))

\* the whole script
DataStandardization(f) == StandardizeFrom(1, f, <<>>)

(***************************************************************************)
(* Inputs of the Standardizer: a base panel of up to MaxStandardRows rows  *)
(* with any country text and any year text of a small set in each row,     *)
(* with or without a second file that needs no change                      *)
(***************************************************************************)
MaxStandardRows == 2

CountryTexts == {"Philippines", "PH", " PH ", "Japan", " Japan", "608", None}

YearTexts == {"1999", "2000", "2024", "2024.0", "2025", "2010.5", "abc", None}

\* a file with the given country and year texts; population tells the rows
\* apart
RawPanel(countries, years) ==
    Table(<<"country", "year", "population">>,
          [i \in 1..Len(countries) |->
             [country |-> countries[i], year |-> years[i], population |-> 100 + i]])

RawLtfrb ==
    Table(<<"country", "year", "fleet_size">>,
          <<[country |-> "Philippines", year |-> "2024", fleet_size |-> 42000]>>)

InitStandardizer ==
    /\ \/ \E n \in 0..MaxStandardRows, ltfrb \in BOOLEAN :
            \E countries \in [1..n -> CountryTexts], years \in [1..n -> YearTexts] :
               fs = [name \in {WorldBankFile} \cup (IF ltfrb THEN {LtfrbFile} ELSE {}) |->
                       IF name = WorldBankFile THEN RawPanel(countries, years) ELSE RawLtfrb]
       \/ fs = NoFiles
    /\ run = NoRun
    /\ orch = OrchIdle

RunDataStandardization ==
    /\ run.script = StandardizerScript => run.pass < MaxPasses
    /\ \E r \in {DataStandardization(fs)} :
          /\ fs' = r.fs
          /\ run' = Ran(StandardizerScript, Inputs(fs, Range(files_to_standardize)), r, <<>>)
          /\ UNCHANGED orch

NextStandardizer == RunDataStandardization

SpecStandardizer == InitStandardizer /\ [][NextStandardizer]_vars

(***************************************************************************)
(* Properties of the Standardizer                                          *)
(***************************************************************************)
\* the Standardizer ran last
StandardizerRan == run.script = StandardizerScript

\* the files of the list in directory f that have column c
FilesWith(f, c) == {name \in Range(files_to_standardize) \cap DOMAIN f : HasCol(f[name], c)}

\* the text is a whole year from year_min to year_max
ValidYear(s) ==
    /\ to_numeric(s) # NaN
    /\ to_numeric(s) % 10 = 0
    /\ to_numeric(s) >= 10 * year_min /\ to_numeric(s) <= 10 * year_max

\* the rows of table t that have a valid year
ValidRows(t) == SelectSeq(t.rows, LAMBDA r : ValidYear(r["year"]))

\* every country column of directory f is a column of strings
CountriesAreStrings(f) == \A name \in FilesWith(f, "country") : StringColumn(f[name], "country")

\* the file name has been saved with exactly the rows of its input that have
\* a valid year, in their order, each with its year as an integer
YearsFiltered(name) ==
    /\ name \in run.written
    /\ Len(fs[name].rows) = Len(ValidRows(run.before[name]))
    /\ \A i \in 1..Len(fs[name].rows) :
          /\ fs[name].rows[i]["year"] \in {IntText[v] : v \in DOMAIN IntText}
          /\ ValidYear(fs[name].rows[i]["year"])
          /\ to_numeric(fs[name].rows[i]["year"])
               = to_numeric(ValidRows(run.before[name])[i]["year"])
          /\ \A c \in Range(fs[name].cols) \ {"country", "year"} :
                fs[name].rows[i][c] = ValidRows(run.before[name])[i][c]

\* C21: after the Standardizer has processed a file with a year column, the
\* file has exactly the input rows whose year is an integer from 2000 to
\* 2024, the year an integer; the rows with any other year are removed
YearsStandardized ==
    (StandardizerRan /\ CountriesAreStrings(run.before))
    => \A name \in FilesWith(run.before, "year") : YearsFiltered(name)

\* no year of the directory f is a number in the range that is not whole
NoFractionalYear(f) ==
    \A name \in FilesWith(f, "year") :
       \A i \in 1..Len(f[name].rows) :
          InYearRange(to_numeric(f[name].rows[i]["year"]))
             => to_numeric(f[name].rows[i]["year"]) % 10 = 0

\* the same when no input year in the range has a fraction
YearsStandardizedWholeYears ==
    (StandardizerRan /\ CountriesAreStrings(run.before) /\ NoFractionalYear(run.before))
    => \A name \in FilesWith(run.before, "year") : YearsFiltered(name)

\* a run on a file with a row to keep and a row to remove
YearsStandardizedWitness ==
    /\ StandardizerRan /\ run.status = "ok"
    /\ Len(run.before[WorldBankFile].rows) = 2
    /\ Len(fs[WorldBankFile].rows) = 1

\* the file name has been saved with every row of its input, the country of
\* row i being to(i)
CountriesMapped(name, to(_)) ==
    /\ name \in run.written
    /\ Len(fs[name].rows) = Len(run.before[name].rows)
    /\ \A i \in 1..Len(fs[name].rows) : fs[name].rows[i]["country"] = to(i)

\* every year of directory f is valid
YearsAreValid(f) ==
    \A name \in FilesWith(f, "year") :
       \A i \in 1..Len(f[name].rows) : ValidYear(f[name].rows[i]["year"])

\* C22: the Standardizer replaces a country that is a key of country_map by
\* the canonical name and leaves any other country as it is; no country
\* makes the script fail or lose a row
CountriesStandardized ==
    (StandardizerRan /\ YearsAreValid(run.before))
    => \A name \in FilesWith(run.before, "country") :
          LET to(i) == IF run.before[name].rows[i]["country"] \in DOMAIN country_map
                       THEN country_map[run.before[name].rows[i]["country"]]
                       ELSE run.before[name].rows[i]["country"]
          IN CountriesMapped(name, to)

\* the same for the countries without the whitespace around them, when the
\* country columns are columns of strings
CountriesStandardizedStripped ==
    (StandardizerRan /\ YearsAreValid(run.before) /\ CountriesAreStrings(run.before))
    => \A name \in FilesWith(run.before, "country") :
          LET to(i) == IF Strip(run.before[name].rows[i]["country"]) \in DOMAIN country_map
                       THEN country_map[Strip(run.before[name].rows[i]["country"])]
                       ELSE Strip(run.before[name].rows[i]["country"])
          IN CountriesMapped(name, to)

(***************************************************************************)
(* config.py: the configured paths and get_path.  A path is the sequence   *)
(* of its parts below the project root                                     *)
(***************************************************************************)
DATA_DIR == <<"data">>

OUTPUT_DIR == <<"output">>

MODELS_DIR == <<"models">>

\* Path / name
PathJoin(dir, name) == Append(dir, name)

RAW_DATA ==
    ("worldbank" :> PathJoin(DATA_DIR, WorldBankFile))
    @@ ("dpwh" :> PathJoin(DATA_DIR, "dpwh_data.csv"))
    @@ ("jica" :> PathJoin(DATA_DIR, JicaFile))
    @@ ("ltfrb" :> PathJoin(DATA_DIR, LtfrbFile))
    @@ ("psa" :> PathJoin(DATA_DIR, PsaFile))
    @@ ("sws" :> PathJoin(DATA_DIR, "sws_satisfaction.csv"))
    @@ ("openaq" :> PathJoin(DATA_DIR, OpenaqFile))
    @@ ("tomtom" :> PathJoin(DATA_DIR, TomTomFile))
    @@ ("overpass" :> PathJoin(DATA_DIR, OverpassFile))
    @@ ("uitp" :> PathJoin(DATA_DIR, UitpFile))
    @@ ("adb" :> PathJoin(DATA_DIR, AdbFile))
    @@ ("congestion" :> PathJoin(DATA_DIR, CongestionFile))

PROCESSED_DATA ==
    ("clean_panel" :> PathJoin(DATA_DIR, CleanPanelFile))
    @@ ("clean_panel_train" :> PathJoin(DATA_DIR, CleanTrainFile))
    @@ ("clean_panel_test" :> PathJoin(DATA_DIR, CleanTestFile))

OUTPUT_FILES ==
    ("univariate_summary" :> PathJoin(OUTPUT_DIR, "univariate_summary.csv"))
    @@ ("correlation_matrix" :> PathJoin(OUTPUT_DIR, "correlation_matrix.csv"))
    @@ ("strong_correlations" :> PathJoin(OUTPUT_DIR, "strong_correlations.csv"))
    @@ ("country_clusters" :> PathJoin(OUTPUT_DIR, "country_clusters.csv"))
    @@ ("sensitivity_results" :> PathJoin(OUTPUT_DIR, "sensitivity_analysis_results.csv"))
    @@ ("tft_logs" :> PathJoin(OUTPUT_DIR, "tft_logs"))

MODEL_FILES ==
    ("tft_best" :> PathJoin(MODELS_DIR, "tft_best.ckpt"))
    @@ ("tft_last" :> PathJoin(MODELS_DIR, "last.ckpt"))

categories ==
    ("raw" :> RAW_DATA) @@ ("processed" :> PROCESSED_DATA) @@ ("output" :> OUTPUT_FILES)
    @@ ("model" :> MODEL_FILES)

\* no path: the call raised
NoPath == <<>>

\* the fault of taking a key from whichever category defines it
get_path_anywhere(category, key) ==
    IF \E c \in DOMAIN categories : key \in DOMAIN categories[c]
    THEN [raised |-> "none",
          path |-> categories[CHOOSE c \in DOMAIN categories : key \in DOMAIN categories[c]][key]]
    ELSE [raised |-> "ValueError", path |-> NoPath]

\* get_path: the exception it raises, if any, and the path it returns
get_path(category, key) ==
    IF category \notin DOMAIN categories THEN [raised |-> "ValueError", path |-> NoPath]
    ELSE IF key \notin DOMAIN categories[category]
    THEN [raised |-> "ValueError", path |-> NoPath]
    ELSE [raised |-> "none", path |-> categories[category][key]]

(***************************************************************************)
(* Calls of get_path: with every category name and a few other strings,    *)
(* and with every key of the configuration and a few other strings         *)
(***************************************************************************)
CategoryArgs == DOMAIN categories \cup {"invalid", "RAW", None}

KeyArgs ==
    DOMAIN RAW_DATA \cup DOMAIN PROCESSED_DATA \cup DOMAIN OUTPUT_FILES \cup DOMAIN MODEL_FILES
    \cup {"invalid_key", "Worldbank", None}

ConfigModule == "config.py"

InitConfig ==
    /\ fs = NoFiles
    /\ run = NoRun
    /\ orch = OrchIdle

\* one call; run records the arguments and the outcome
CallGetPath ==
    /\ \E category \in CategoryArgs, key \in KeyArgs :
         \E r \in {get_path(category, key)} :
            run' = [script |-> ConfigModule, category |-> category, key |-> key,
                    raised |-> r.raised, path |-> r.path]
    /\ UNCHANGED <<fs, orch>>

NextConfig == CallGetPath

SpecConfig == InitConfig /\ [][NextConfig]_vars

(***************************************************************************)
(* Properties of get_path                                                  *)
(***************************************************************************)
\* get_path has been called
GetPathCalled == run.script = ConfigModule

\* key is defined in the category named category
Defined(category, key) ==
    \/ category = "raw" /\ key \in DOMAIN RAW_DATA
    \/ category = "processed" /\ key \in DOMAIN PROCESSED_DATA
    \/ category = "output" /\ key \in DOMAIN OUTPUT_FILES
    \/ category = "model" /\ key \in DOMAIN MODEL_FILES

\* the path configured for a key that is defined in the category
Configured(category, key) ==
    IF category = "raw" THEN RAW_DATA[key]
    ELSE IF category = "processed" THEN PROCESSED_DATA[key]
    ELSE IF category = "output" THEN OUTPUT_FILES[key]
    ELSE MODEL_FILES[key]

\* C24: get_path returns the configured path when the category is raw,
\* processed, output or model and the key is defined in that category; in
\* every other case it raises ValueError and returns no path
GetPathContract ==
    GetPathCalled =>
        IF Defined(run.category, run.key)
        THEN run.raised = "none" /\ run.path = Configured(run.category, run.key)
        ELSE run.raised = "ValueError" /\ run.path = NoPath

\* a call with a key that another category defines
GetPathContractWitness ==
    /\ GetPathCalled
    /\ run.category \in DOMAIN categories
    /\ ~Defined(run.category, run.key)
    /\ \E c \in DOMAIN categories : Defined(c, run.key)
    /\ run.raised = "ValueError"

(***************************************************************************)
(* Properties of every stage                                               *)
(***************************************************************************)
\* the core stages that are modelled as scripts of their own
CoreStages ==
    {EstimatorScript, MergeScript, MissingValueScript, WinsorScript, BalanceScript, SplitScript}

\* the files a stage cannot do its work without
RequiredInputs(script) ==
    IF script = EstimatorScript THEN {WorldBankFile, TomTomFile} ELSE {WorldBankFile}

\* C18: a core stage that ran without a file it requires has ended with a
\* failure status and has written no file
MissingInputAborts ==
    (/\ run.script \in CoreStages
     /\ ~(RequiredInputs(run.script) \subseteq DOMAIN run.before))
    => run.status = "error" /\ run.written = {}

(***************************************************************************)
(* run_all.py: the orchestrator.  Its state: where main() is (pc), the     *)
(* scripts that lie where run_script looks for them, the list of steps,    *)
(* the number of the step at hand, the scripts started so far, the failed  *)
(* steps, the count of successful ones and the exit status                 *)
(***************************************************************************)
GatheringSteps ==
    <<"data_gathering_worldbank.py", "data_gathering_tomtom.py", EstimatorScript,
      "data_gathering_uitp.py", "data_gathering_psa.py", "data_gathering_ltfrb.py",
      "data_gathering_openaq.py", "data_gathering_overpass.py", "data_gathering_adb.py",
      "data_gathering_jica.py", "data_gathering_sws.py", "data_gathering_dpwh.py">>

PreparationSteps ==
    <<"data_inspection.py", StandardizerScript, MissingValueScript, "feature_engineering.py",
      WinsorScript, BalanceScript, SplitScript, MergeScript>>

EdaSteps ==
    <<"validation_plots.py", "eda_univariate.py", "eda_time_trends.py",
      "eda_correlation_clustering.py", "eda_scatter_loess.py">>

VerificationSteps == <<"verify_data_improvements.py", "sensitivity_analysis.py">>

CausalSteps == <<"causal_modeling_dowhy.py">>

TftSteps == <<"prepare_tft_dataset.py", "train_tft_model.py">>

AllSteps ==
    GatheringSteps \o PreparationSteps \o EdaSteps \o VerificationSteps \o CausalSteps
    \o TftSteps

\* the step scripts that lie in the directory of run_all.py in this
\* repository; the others lie in packages where run_script does not look
ScriptsDir ==
    {"data_gathering_tomtom.py", "data_gathering_uitp.py", "data_gathering_ltfrb.py",
     "data_gathering_openaq.py", "data_gathering_adb.py", "data_gathering_jica.py",
     StandardizerScript, "feature_engineering.py", BalanceScript, SplitScript, MergeScript,
     "validation_plots.py", "eda_univariate.py", "eda_time_trends.py",
     "eda_scatter_loess.py", "verify_data_improvements.py"}

\* the fault of taking every reply for a y
LowerAny(s) == "y"

\* str.lower() of a reply
Lower(s) == IF s = "Y" THEN "y" ELSE IF s = "N" THEN "n" ELSE s

\* what the user may type at a question
Replies == {"y", "Y", "n"}

key_files == {WorldBankFile, TomTomFile, PsaFile, LtfrbFile}

\* at least 75% of the key files are there
check_data_exists(f) ==
    4 * Cardinality(key_files \cap DOMAIN f) >= 3 * Cardinality(key_files)

MinTftObservations == 1000

MinTftCountries == 10

MinTftYears == 10

\* the check of the clean panel that main() makes before any step runs: it
\* selects the rows with a congestion index without asking whether the panel
\* has that column (KeyError); its divisions are divisions of numpy integers,
\* which give nan or inf for a zero divisor and raise nothing
DataSufficiency(f) ==
    IF ~Exists(f, CleanPanelFile) THEN "proceed"
    ELSE LET df == f[CleanPanelFile]
             measured == IF HasCol(df, "congestion_index")
                         THEN Filter(df.rows,
                                     {i \in 1..Len(df.rows) :
                                        ~IsNull("congestion_index", df.rows[i]["congestion_index"])})
                         ELSE <<>>
             congestion_count == Len(measured)
             country_count == Cardinality({measured[i]["country"] : i \in 1..Len(measured)} \ {None})
             years == [i \in 1..Len(measured) |-> measured[i]["year"]]
             year_range == IF Len(measured) > 0 THEN SeriesMax(years) - SeriesMin(years) + 1 ELSE 0
         IN IF ~HasCol(df, "congestion_index") THEN "crash"
            ELSE IF congestion_count < MinTftObservations THEN "insufficient"
            ELSE IF country_count < MinTftCountries THEN "insufficient"
            ELSE IF year_range < MinTftYears THEN "insufficient"
            ELSE "proceed"

\* the steps main() lists
Steps(skip_gathering, skip_eda, skip_tft) ==
    (IF skip_gathering THEN <<>> ELSE GatheringSteps)
    \o PreparationSteps
    \o (IF skip_eda THEN <<>> ELSE EdaSteps)
    \o VerificationSteps \o CausalSteps
    \o (IF skip_tft THEN <<>> ELSE TftSteps)

(***************************************************************************)
(* The scripts as subprocesses of the orchestrator                         *)
(***************************************************************************)
NumPipelineCountries == 2

YearsTrained == 8

YearsTested == 2

\* the base panel as gathered: every country over the years around the split
GatheredPanel ==
    YearPanel(NumPipelineCountries, (split_year - YearsTrained)..(split_year + YearsTested - 1))

\* the file a gatherer writes and the table it holds
Gathered ==
    [name \in {"data_gathering_worldbank.py", "data_gathering_tomtom.py",
               "data_gathering_uitp.py", "data_gathering_psa.py", "data_gathering_ltfrb.py",
               "data_gathering_openaq.py", "data_gathering_overpass.py",
               "data_gathering_adb.py", "data_gathering_jica.py"} |->
       IF name = "data_gathering_worldbank.py"
       THEN [file |-> WorldBankFile, table |-> GatheredPanel]
       ELSE IF name = "data_gathering_tomtom.py"
       THEN [file |-> TomTomFile, table |-> TomTomTable(GatheredPanel, 2, FALSE, FALSE)]
       ELSE IF name = "data_gathering_uitp.py" THEN [file |-> UitpFile, table |-> UitpTable]
       ELSE IF name = "data_gathering_psa.py" THEN [file |-> PsaFile, table |-> PsaTable]
       ELSE IF name = "data_gathering_ltfrb.py" THEN [file |-> LtfrbFile, table |-> LtfrbTable]
       ELSE IF name = "data_gathering_openaq.py" THEN [file |-> OpenaqFile, table |-> OpenaqTable]
       ELSE IF name = "data_gathering_overpass.py"
       THEN [file |-> OverpassFile, table |-> OverpassTable]
       ELSE IF name = "data_gathering_adb.py" THEN [file |-> AdbFile, table |-> AdbTable]
       ELSE [file |-> JicaFile, table |-> JicaTable]]

\* what subprocess.run of a script can come to.  The scripts modelled above
\* do what they do; a gatherer writes its file or fails; of the other scripts
\* only the exit status is followed, not their changes to the tables.  Any
\* script may also be stopped at the timeout, before it has written.
Subprocess(script, f) ==
    (IF script = EstimatorScript
     THEN {CongestionProxy(f, noise) : noise \in IF DrawsNoise(f) THEN NoiseStreams ELSE {<<>>}}
     ELSE IF script = MergeScript THEN {MergePanel(f)}
     ELSE IF script = WinsorScript THEN {Winsorization(f)}
     ELSE IF script = BalanceScript THEN {PanelBalance(f)}
     ELSE IF script = SplitScript THEN {TrainTestSplit(f)}
     ELSE IF script \in DOMAIN Gathered
     THEN {Result("ok", WriteFile(f, Gathered[script].file, Gathered[script].table),
                  {Gathered[script].file}),
           Result("failed", f, {})}
     ELSE {Result("ok", f, {}), Result("failed", f, {})})
    \cup {Result("timeout", f, {})}

\* the failures of a run that do not follow from the files
MaxFaults == 1

(***************************************************************************)
(* Inputs of the orchestrator: the data directory as a fresh checkout has  *)
(* it or as earlier runs left it, and the scripts next to run_all.py       *)
(***************************************************************************)
GatheredDirectory ==
    [name \in key_files |->
       IF name = WorldBankFile THEN GatheredPanel
       ELSE IF name = TomTomFile THEN Gathered["data_gathering_tomtom.py"].table
       ELSE IF name = PsaFile THEN PsaTable
       ELSE LtfrbTable]

Directories ==
    {NoFiles,
     GatheredDirectory,
     MergePanel(GatheredDirectory).fs,
     MergePanel([name \in {WorldBankFile} |-> GatheredPanel]).fs}

InitOrchestrator ==
    /\ fs \in Directories
    /\ run = NoRun
    /\ \E scripts \in {ScriptsDir, Range(AllSteps)} : orch = [OrchIdle EXCEPT !.scripts = scripts]

\* main() up to the loop: the arguments, the question about gathering when
\* the key files are there, the check of the clean panel and the question
\* about the TFT steps when it finds too little data
Main ==
    /\ orch.pc = "idle"
    /\ \E argv_gathering \in BOOLEAN, skip_eda \in BOOLEAN, response \in Replies,
          tft_response \in Replies :
         LET skip_gathering ==
                 argv_gathering \/ (check_data_exists(fs) /\ Lower(response) = "y")
             sufficiency == DataSufficiency(fs)
             skip_tft == sufficiency = "insufficient" /\ Lower(tft_response) # "n"
         IN orch' = IF sufficiency = "crash"
                    THEN [orch EXCEPT !.pc = "crashed", !.exit = 1]
                    ELSE [orch EXCEPT !.pc = "running",
                                      !.steps = Steps(skip_gathering, skip_eda, skip_tft)]
    /\ UNCHANGED <<fs, run>>

\* run_script finds the script of the next step and starts it; the reply to
\* the question about the step before, if there was one, has been used
StartStep ==
    /\ orch.pc = "running"
    /\ orch.i < Len(orch.steps)
    /\ orch.steps[orch.i + 1] \in orch.scripts
    /\ orch' = [orch EXCEPT !.pc = "in_step", !.i = @ + 1,
                            !.started = Append(@, orch.steps[orch.i + 1]),
                            !.response = "none"]
    /\ UNCHANGED <<fs, run>>

\* run_script does not find the script of the next step: the step failed,
\* and only the reply y lets the loop go on
ScriptNotFound ==
    /\ orch.pc = "running"
    /\ orch.i < Len(orch.steps)
    /\ orch.steps[orch.i + 1] \notin orch.scripts
    /\ \E response \in Replies :
         orch' = [orch EXCEPT !.pc = IF Lower(response) = "y" THEN "running" ELSE "aborted",
                              !.i = @ + 1,
                              !.failed_steps = Append(@, orch.steps[orch.i + 1]),
                              !.response = response]
    /\ UNCHANGED <<fs, run>>

\* the script of the step at hand ends or is stopped: a success is counted,
\* a failure is noted and only the reply y lets the loop go on
FinishStep ==
    /\ orch.pc = "in_step"
    /\ \E r \in Subprocess(orch.steps[orch.i], fs), response \in Replies :
         LET ok == r.status = "ok"
             fault == r.status \in {"failed", "timeout"}
         IN /\ fault => orch.faults < MaxFaults
            /\ ok => response = "y"
            /\ fs' = r.fs
            /\ run' = Ran(orch.steps[orch.i], NoFiles, r, <<>>)
            /\ orch' = [orch EXCEPT
                          !.pc = IF ok \/ Lower(response) = "y" THEN "running" ELSE "aborted",
                          !.successful_steps = IF ok THEN @ + 1 ELSE @,
                          !.failed_steps = IF ok THEN @ ELSE Append(@, orch.steps[orch.i]),
                          !.faults = IF fault THEN @ + 1 ELSE @,
                          !.response = IF ok THEN @ ELSE response]

\* after the loop: the summary and the exit status
Report ==
    /\ orch.pc = "aborted" \/ (orch.pc = "running" /\ orch.i = Len(orch.steps))
    /\ orch' = [orch EXCEPT !.pc = "done",
                            !.exit = IF orch.failed_steps = <<>> THEN 0 ELSE 1]
    /\ UNCHANGED <<fs, run>>

NextOrchestrator == Main \/ StartStep \/ ScriptNotFound \/ FinishStep \/ Report

SpecOrchestrator == InitOrchestrator /\ [][NextOrchestrator]_vars

(***************************************************************************)
(* Properties of the orchestrator                                          *)
(***************************************************************************)
\* the stages of the pipeline in the order of the data flow
StageOrder ==
    <<StandardizerScript, EstimatorScript, MergeScript, MissingValueScript, WinsorScript,
      BalanceScript, SplitScript>>

StageRank(script) == CHOOSE k \in 1..Len(StageOrder) : StageOrder[k] = script

\* C8: the stages start in the order Standardizer, Estimator, Merger,
\* Missing-Value Handler, Winsorizer, Balancer, Splitter: no stage has started
\* before a stage that comes earlier in this order
StagesInOrder ==
    \A j, k \in 1..Len(orch.started) :
       (/\ j < k
        /\ orch.started[j] \in Range(StageOrder)
        /\ orch.started[k] \in Range(StageOrder))
       => StageRank(orch.started[j]) < StageRank(orch.started[k])

\* the place of a script in the list of steps of this run
StepIndex(script) == CHOOSE k \in 1..Len(orch.steps) : orch.steps[k] = script

\* the steps have started one after another in list order, and no step is
\* started while another one runs
StepsInListOrder ==
    /\ Len(orch.started) <= orch.i
    /\ \A j \in 1..Len(orch.started) : orch.started[j] \in Range(orch.steps)
    /\ \A j, k \in 1..Len(orch.started) :
          j < k => StepIndex(orch.started[j]) < StepIndex(orch.started[k])
    /\ orch.pc = "in_step" => orch.started[Len(orch.started)] = orch.steps[orch.i]

\* the loop has been left
LoopLeft == orch.pc \in {"aborted", "done", "crashed"}

\* the exit status is 0 exactly when no executed step failed
ExitReportsFailures ==
    orch.pc \in {"done", "crashed"} => (orch.exit = 0 <=> orch.failed_steps = <<>>)

\* C29: the steps run one after another in list order; after a failed step
\* and any reply other than "y" no later step is started; and the exit status
\* is 0 if and only if no executed step failed
SequentialAbortAndExit ==
    /\ [](StepsInListOrder /\ ExitReportsFailures)
    /\ [](orch.response \notin {"none", "y"} => LoopLeft)
    /\ [][LoopLeft => orch'.started = orch.started]_vars

\* C29 as the code answers the question: the reply is lower-cased first, so
\* "Y" continues as "y" does
SequentialAbortAndExitAnyCase ==
    /\ [](StepsInListOrder /\ ExitReportsFailures)
    /\ [](orch.response \notin {"none", "y", "Y"} => LoopLeft)
    /\ [][LoopLeft => orch'.started = orch.started]_vars

\* a run that continued past a failed step, ran a later step and reported
\* failure
ContinuedPastFailure ==
    /\ orch.pc = "done"
    /\ orch.exit = 1
    /\ orch.failed_steps # <<>>
    /\ \E k \in 1..Len(orch.started) :
          StepIndex(orch.started[k]) > StepIndex(orch.failed_steps[1])

\* the run is complete and every step of it succeeded, the merger and the
\* splitter among them
CompleteRun ==
    /\ orch.pc = "done"
    /\ orch.exit = 0
    /\ Len(orch.started) = Len(orch.steps)
    /\ {MergeScript, SplitScript} \subseteq Range(orch.started)

CompleteRunWritesCleanPanel == CompleteRun => Exists(fs, CleanPanelFile)

====
